---- MODULE Spec2Model ----
(***************************************************************************)
(* Verification model of the WolfXL surgical xlsx patcher                  *)
(* (src/rust/excelbench_rust/src/wolfxl): the worksheet stream patcher     *)
(* (sheet_patcher.rs), the style table appender (styles.rs) and the patch  *)
(* queue and save orchestration of XlsxPatcher (mod.rs).                   *)
(*                                                                         *)
(* Text is modelled as a sequence of one-character strings, an XML         *)
(* document as the sequence of events quick-xml reads from it or writes    *)
(* to it, and Option<T> as the empty sequence (None) or <<x>> (Some(x)).   *)
(***************************************************************************)
EXTENDS Integers, Sequences, FiniteSets, TLC

VARIABLES
    pc,        \* which operation ran last ("ready" before any)
    xml,       \* patch_worksheet: the worksheet part read from the source
    patches,   \* patch_worksheet: the CellPatch slice handed to it
    result,    \* patch_worksheet: the document it returned
    refs,      \* the cell reference functions: the last call and what it returned
    source_styles, \* apply_format_spec: the styles part before the first call
    current_styles,    \* apply_format_spec: the styles part after the calls so far
    applied,       \* apply_format_spec: the calls so far, <<spec, returned index>>
    patcher,   \* XlsxPatcher: sheet_paths, value_patches, format_patches
    disk,      \* the file system: what each path holds, if anything
    last,      \* the last call on the patcher: its arguments and whether it returned Ok
    calls      \* the number of calls on the patcher so far

sheetVars == <<xml, patches, result, refs>>
styleVars == <<source_styles, current_styles, applied>>
patcherVars == <<patcher, disk, last, calls>>
vars == <<pc, sheetVars, styleVars, patcherVars>>

----------------------------------------------------------------------------
(* Bounds of the model *)

MaxRow == 3
MaxCol == 2
MaxPatches == 2
MaxApply == 2
MaxCalls == 2
MaxQueued == 2
MaxSaves == 2

----------------------------------------------------------------------------
(* Option and text helpers *)

None == <<>>
Some(x) == <<x>>
IsSome(o) == o # <<>>
Unwrap(o) == o[1]

Digits == <<"0", "1", "2", "3", "4", "5", "6", "7", "8", "9">>
UpperLetters == <<"A", "B", "C", "D", "E", "F", "G", "H", "I", "J", "K", "L", "M",
                  "N", "O", "P", "Q", "R", "S", "T", "U", "V", "W", "X", "Y", "Z">>
LowerLetters == <<"a", "b", "c", "d", "e", "f", "g", "h", "i", "j", "k", "l", "m",
                  "n", "o", "p", "q", "r", "s", "t", "u", "v", "w", "x", "y", "z">>

Range(s) == {s[i] : i \in DOMAIN s}
IndexIn(s, ch) == CHOOSE i \in DOMAIN s : s[i] = ch

is_ascii_digit(ch) == ch \in Range(Digits)
is_ascii_alphabetic(ch) == ch \in Range(UpperLetters) \cup Range(LowerLetters)
DigitVal(ch) == IndexIn(Digits, ch) - 1
\* ch.to_ascii_uppercase() as u32 - b'A' as u32 + 1
LetterVal(ch) ==
    IF ch \in Range(UpperLetters) THEN IndexIn(UpperLetters, ch)
    ELSE IndexIn(LowerLetters, ch)

\* u32 / i64 Display: decimal digits, no leading zeros
RECURSIVE to_string(_)
to_string(n) ==
    IF n < 10 THEN <<Digits[n + 1]>>
    ELSE to_string(n \div 10) \o <<Digits[(n % 10) + 1]>>

RECURSIVE DigitsValue(_)
DigitsValue(s) ==
    IF s = <<>> THEN 0
    ELSE DigitsValue(SubSeq(s, 1, Len(s) - 1)) * 10 + DigitVal(s[Len(s)])

\* str::parse::<u32>().ok(): None unless the text is a non-empty run of digits
parse_u32(s) ==
    IF s # <<>> /\ \A i \in DOMAIN s : is_ascii_digit(s[i])
    THEN Some(DigitsValue(s)) ELSE None

\* the elements of a finite set of integers in ascending order
\* (the iteration order of a BTreeMap's keys)
RECURSIVE Ascending(_)
Ascending(S) ==
    IF S = {} THEN <<>>
    ELSE LET m == CHOOSE x \in S : \A y \in S : x <= y
         IN <<m>> \o Ascending(S \ {m})

Contains(s, x) == \E i \in DOMAIN s : s[i] = x

----------------------------------------------------------------------------
(* XML events *)

Attr(k, v) == [key |-> k, value |-> v]
StartEv(tag, attrs) == [kind |-> "Start", tag |-> tag, attrs |-> attrs, text |-> <<>>]
EmptyEv(tag, attrs) == [kind |-> "Empty", tag |-> tag, attrs |-> attrs, text |-> <<>>]
EndEv(tag) == [kind |-> "End", tag |-> tag, attrs |-> <<>>, text |-> <<>>]
TextEv(t) == [kind |-> "Text", tag |-> "", attrs |-> <<>>, text |-> t]

\* entity references resolved, as a reader does for an attribute value or text
RECURSIVE xml_unescape(_)
xml_unescape(s) ==
    IF s = <<>> THEN <<>>
    ELSE IF Head(s) = "&" /\ \E i \in DOMAIN s : s[i] = ";" THEN
        LET j == CHOOSE i \in DOMAIN s : s[i] = ";" /\ \A h \in 1..(i - 1) : s[h] # ";"
            name == SubSeq(s, 2, j - 1)
            ch == CASE name = <<"a", "m", "p">> -> <<"&">>
                    [] name = <<"l", "t">> -> <<"<">>
                    [] name = <<"g", "t">> -> <<">">>
                    [] name = <<"a", "p", "o", "s">> -> <<"'">>
                    [] name = <<"q", "u", "o", "t">> -> <<"\"">>
                    [] OTHER -> SubSeq(s, 1, j)
        IN ch \o xml_unescape(SubSeq(s, j + 1, Len(s)))
    ELSE <<Head(s)>> \o xml_unescape(Tail(s))

\* the first attribute named key, if any
attr_value(e, key) ==
    IF \E i \in DOMAIN e.attrs : e.attrs[i].key = key
    THEN LET i == CHOOSE j \in DOMAIN e.attrs :
                      /\ e.attrs[j].key = key
                      /\ \A h \in 1..(j - 1) : e.attrs[h].key # key
         IN Some(xml_unescape(e.attrs[i].value))
    ELSE None

\* quick-xml escapes the text handed to BytesText::new
EscapeChar(ch) ==
    CASE ch = "&" -> <<"&", "a", "m", "p", ";">>
      [] ch = "<" -> <<"&", "l", "t", ";">>
      [] ch = ">" -> <<"&", "g", "t", ";">>
      [] ch = "'" -> <<"&", "a", "p", "o", "s", ";">>
      [] ch = "\"" -> <<"&", "q", "u", "o", "t", ";">>
      [] OTHER -> <<ch>>

\* BytesText::from_escaped: the text as it is
BytesText_from_escaped(s) == s

RECURSIVE BytesText_new(_)
BytesText_new(s) ==
    IF s = <<>> THEN <<>> ELSE EscapeChar(Head(s)) \o BytesText_new(Tail(s))

----------------------------------------------------------------------------
(* Cell references *)

RECURSIVE parse_cell_ref_from(_, _, _)
parse_cell_ref_from(cell_ref, col, row_str) ==
    IF cell_ref = <<>> THEN
        <<(IF IsSome(parse_u32(row_str)) THEN Unwrap(parse_u32(row_str)) ELSE 0), col>>
    ELSE LET ch == Head(cell_ref) IN
        IF is_ascii_alphabetic(ch)
        THEN parse_cell_ref_from(Tail(cell_ref), col * 26 + LetterVal(ch), row_str)
        ELSE IF is_ascii_digit(ch)
        THEN parse_cell_ref_from(Tail(cell_ref), col, Append(row_str, ch))
        ELSE parse_cell_ref_from(Tail(cell_ref), col, row_str)

\* "B3" -> <<3, 2>>: (row, col), both 1-based
parse_cell_ref(cell_ref) == parse_cell_ref_from(cell_ref, 0, <<>>)

\* the last letter alone
col_letters_last(c) == IF c = 0 THEN <<>> ELSE <<UpperLetters[((c - 1) % 26) + 1]>>

RECURSIVE col_letters(_)
col_letters(c) ==
    IF c = 0 THEN <<>>
    ELSE col_letters((c - 1) \div 26) \o <<UpperLetters[((c - 1) % 26) + 1]>>

col_row_to_a1(col, row) == col_letters(col) \o to_string(row)

\* no call of a cell reference function yet
NoRef == [op |-> "none", from |-> "none", col |-> 0, row |-> 0, text |-> <<>>,
          accepted |-> None, parsed |-> <<0, 0>>]

----------------------------------------------------------------------------
(* Cell patch types (sheet_patcher.rs) *)

\* enum CellValue; a Number carries its value in tenths (990 is 99.0, 15 is 1.5)
Blank == [kind |-> "Blank", num |-> 0, str |-> <<>>, bool |-> FALSE]
Number(n) == [kind |-> "Number", num |-> n, str |-> <<>>, bool |-> FALSE]
String(s) == [kind |-> "String", num |-> 0, str |-> s, bool |-> FALSE]
Boolean(b) == [kind |-> "Boolean", num |-> 0, str |-> <<>>, bool |-> b]
Formula(f) == [kind |-> "Formula", num |-> 0, str |-> f, bool |-> FALSE]

CellPatch(row, col, value, style_index) ==
    [row |-> row, col |-> col, value |-> value, style_index |-> style_index]

\* `*n as i64`: truncation toward zero
TruncToI64(n) == IF n >= 0 THEN n \div 10 ELSE -((-n) \div 10)

\* format!("{}", i64)
format_i64(i) == IF i < 0 THEN <<"-">> \o to_string(-i) ELSE to_string(i)

\* format!("{n}") of an f64 that has one fractional decimal digit
format_f64(n) ==
    LET a == IF n < 0 THEN -n ELSE n IN
    (IF n < 0 THEN <<"-">> ELSE <<>>) \o to_string(a \div 10) \o <<".">> \o to_string(a % 10)

\* number_text without the integer case
number_text_as_float(n) == format_f64(n)

\* the text written into <v> for a Number
number_text(n) ==
    IF n = TruncToI64(n) * 10 THEN format_i64(TruncToI64(n)) ELSE format_f64(n)

\* style index: the patch's alone
resolved_style_of_patch(original, patch) == patch.style_index

\* style index: the patch's if set, otherwise the original cell's
resolved_style(original, patch) ==
    IF IsSome(patch.style_index) THEN patch.style_index
    ELSE IF IsSome(attr_value(original, "s"))
         THEN parse_u32(Unwrap(attr_value(original, "s")))
         ELSE None

style_attr(original, patch) ==
    LET style == resolved_style(original, patch) IN
    IF IsSome(style) /\ Unwrap(style) > 0
    THEN <<Attr("s", to_string(Unwrap(style)))>> ELSE <<>>

RECURSIVE attrs_except_r_s(_)
attrs_except_r_s(attrs) ==
    IF attrs = <<>> THEN <<>>
    ELSE IF Head(attrs).key \in {"r", "s"} THEN attrs_except_r_s(Tail(attrs))
    ELSE <<Head(attrs)>> \o attrs_except_r_s(Tail(attrs))

\* the start tag written for a style-only patch; the children follow from the source
write_style_only_cell_start(cell_ref, original, patch) ==
    <<StartEv("c", attrs_except_r_s(original.attrs)
                   \o <<Attr("r", cell_ref)>>
                   \o style_attr(original, patch))>>

value_element(tag, text) == <<StartEv(tag, <<>>), TextEv(text), EndEv(tag)>>

\* a complete replacement cell element
write_patched_cell(cell_ref, original, patch) ==
    LET elem == <<Attr("r", cell_ref)>> \o style_attr(original, patch) IN
    IF patch.value = None THEN
        LET orig_type == attr_value(original, "t") IN
        <<EmptyEv("c", elem \o (IF IsSome(orig_type)
                                THEN <<Attr("t", Unwrap(orig_type))>> ELSE <<>>))>>
    ELSE LET v == Unwrap(patch.value) IN
        CASE v.kind = "Blank" -> <<EmptyEv("c", elem)>>
          [] v.kind = "Number" ->
                <<StartEv("c", elem)>> \o value_element("v", BytesText_new(number_text(v.num)))
                \o <<EndEv("c")>>
          [] v.kind = "String" ->
                <<StartEv("c", elem \o <<Attr("t", <<"s", "t", "r">>)>>)>>
                \o value_element("v", BytesText_new(v.str)) \o <<EndEv("c")>>
          [] v.kind = "Boolean" ->
                <<StartEv("c", elem \o <<Attr("t", <<"b">>)>>)>>
                \o value_element("v", BytesText_new(IF v.bool THEN <<"1">> ELSE <<"0">>))
                \o <<EndEv("c")>>
          [] v.kind = "Formula" ->
                <<StartEv("c", elem)>> \o value_element("f", BytesText_new(v.str))
                \o <<EndEv("c")>>

\* a brand-new cell: a replacement of an attribute-less dummy element
write_new_cell(cell_ref, patch) == write_patched_cell(cell_ref, StartEv("c", <<>>), patch)

RECURSIVE write_cells(_, _, _)
write_cells(row_num, cells, cols) ==
    IF cols = <<>> THEN <<>>
    ELSE write_new_cell(col_row_to_a1(Head(cols), row_num), cells[Head(cols)])
         \o write_cells(row_num, cells, Tail(cols))

\* a brand-new <row> holding the row's patched cells in ascending column order
write_new_row(row_num, cells) ==
    <<StartEv("row", <<Attr("r", to_string(row_num))>>)>>
    \o write_cells(row_num, cells, Ascending(DOMAIN cells))
    \o <<EndEv("row")>>

----------------------------------------------------------------------------
(* patch_worksheet (sheet_patcher.rs) *)

\* row -> (col -> patch): a later patch of the slice replaces an earlier one
\* for the same (row, col)
RECURSIVE group_by_row(_, _)
group_by_row(ps, acc) ==
    IF ps = <<>> THEN acc
    ELSE LET p == Head(ps)
             old == IF p.row \in DOMAIN acc THEN acc[p.row] ELSE <<>>
             new == [c \in (DOMAIN old) \cup {p.col} |-> IF c = p.col THEN p ELSE old[c]]
         IN group_by_row(Tail(ps),
                         [r \in (DOMAIN acc) \cup {p.row} |-> IF r = p.row THEN new ELSE acc[r]])

\* the state of the streaming loop; out is what the writer holds
LoopInit ==
    [in_sheet_data |-> FALSE, current_row |-> None, current_row_cols_seen |-> <<>>,
     rows_seen |-> <<>>, skip_until_cell_end |-> FALSE, out |-> <<>>]

Write(st, evs) == [st EXCEPT !.out = @ \o evs]
\* WriteUnlessSkipping without the test of skip_until_cell_end
WriteAlways(st, e) == Write(st, <<e>>)
WriteUnlessSkipping(st, e) == IF st.skip_until_cell_end THEN st ELSE Write(st, <<e>>)

row_number(e) ==
    LET r == attr_value(e, "r") IN
    IF IsSome(r) /\ IsSome(parse_u32(Unwrap(r))) THEN Unwrap(parse_u32(Unwrap(r))) ELSE 0

\* is_missing_before without the comparison with the current row
is_missing_anywhere(rows_seen, pr, row_num) == ~Contains(rows_seen, pr)

\* `pr < row_num && !rows_seen.contains(&pr)`
is_missing_before(rows_seen, pr, row_num) == pr < row_num /\ ~Contains(rows_seen, pr)

\* rows with patches that lie before row_num and were not seen yet, each written whole
RECURSIVE insert_missing_rows(_, _, _, _)
insert_missing_rows(st, row_patches, keys, row_num) ==
    IF keys = <<>> THEN st
    ELSE LET pr == Head(keys) IN
         IF is_missing_before(st.rows_seen, pr, row_num)
         THEN insert_missing_rows(
                  [Write(st, write_new_row(pr, row_patches[pr]))
                      EXCEPT !.rows_seen = Append(@, pr)],
                  row_patches, Tail(keys), row_num)
         ELSE insert_missing_rows(st, row_patches, Tail(keys), row_num)

\* rows with patches that never appeared in the source
RECURSIVE append_remaining_rows(_, _, _)
append_remaining_rows(st, row_patches, keys) ==
    IF keys = <<>> THEN st
    ELSE LET pr == Head(keys) IN
         IF ~Contains(st.rows_seen, pr)
         THEN append_remaining_rows(Write(st, write_new_row(pr, row_patches[pr])),
                                    row_patches, Tail(keys))
         ELSE append_remaining_rows(st, row_patches, Tail(keys))

\* every patched row, for a self-closed <sheetData/>
RECURSIVE write_all_rows(_, _, _)
write_all_rows(st, row_patches, keys) ==
    IF keys = <<>> THEN st
    ELSE write_all_rows(
             [Write(st, write_new_row(Head(keys), row_patches[Head(keys)]))
                 EXCEPT !.rows_seen = Append(@, Head(keys))],
             row_patches, Tail(keys))

\* is_new_column that takes every column for a new one
is_new_column_always(cols_seen, col) == TRUE

\* `!current_row_cols_seen.contains(&col)`
is_new_column(cols_seen, col) == ~Contains(cols_seen, col)

\* the patched cells of the row whose columns were not seen in it
RECURSIVE append_new_cells(_, _, _, _)
append_new_cells(st, row_map, cols, r) ==
    IF cols = <<>> THEN st
    ELSE IF is_new_column(st.current_row_cols_seen, Head(cols))
         THEN append_new_cells(
                  Write(st, write_new_cell(col_row_to_a1(Head(cols), r), row_map[Head(cols)])),
                  row_map, Tail(cols), r)
         ELSE append_new_cells(st, row_map, Tail(cols), r)

\* the patch of the column in the current row, if any
patch_for(st, row_patches, col) ==
    IF /\ IsSome(st.current_row)
       /\ Unwrap(st.current_row) \in DOMAIN row_patches
       /\ col \in DOMAIN row_patches[Unwrap(st.current_row)]
    THEN Some(row_patches[Unwrap(st.current_row)][col])
    ELSE None

cell_ref_of(e) == IF IsSome(attr_value(e, "r")) THEN Unwrap(attr_value(e, "r")) ELSE <<>>

OnStart(st, row_patches, e) ==
    IF e.tag = "sheetData" THEN
        Write([st EXCEPT !.in_sheet_data = TRUE], <<e>>)
    ELSE IF e.tag = "row" /\ st.in_sheet_data THEN
        LET row_num == row_number(e)
            s1 == insert_missing_rows(st, row_patches, Ascending(DOMAIN row_patches), row_num)
        IN Write([s1 EXCEPT !.current_row = Some(row_num),
                            !.current_row_cols_seen = <<>>,
                            !.rows_seen = Append(@, row_num)], <<e>>)
    ELSE IF e.tag = "c" /\ st.in_sheet_data THEN
        LET cell_ref == cell_ref_of(e)
            col == parse_cell_ref(cell_ref)[2]
            s1 == [st EXCEPT !.current_row_cols_seen = Append(@, col)]
            patch == patch_for(s1, row_patches, col)
        IN IF IsSome(patch) THEN
               IF Unwrap(patch).value = None /\ IsSome(Unwrap(patch).style_index)
               THEN Write(s1, write_style_only_cell_start(cell_ref, e, Unwrap(patch)))
               ELSE [Write(s1, write_patched_cell(cell_ref, e, Unwrap(patch)))
                        EXCEPT !.skip_until_cell_end = TRUE]
           ELSE Write(s1, <<e>>)
    ELSE WriteUnlessSkipping(st, e)

OnEmpty(st, row_patches, e) ==
    IF e.tag = "row" /\ st.in_sheet_data THEN
        LET row_num == row_number(e)
            s1 == insert_missing_rows(st, row_patches, Ascending(DOMAIN row_patches), row_num)
            s2 == [s1 EXCEPT !.rows_seen = Append(@, row_num)]
        IN IF row_num \in DOMAIN row_patches
           THEN Write(s2, write_new_row(row_num, row_patches[row_num]))
           ELSE Write(s2, <<e>>)
    ELSE IF e.tag = "c" /\ st.in_sheet_data THEN
        LET cell_ref == cell_ref_of(e)
            col == parse_cell_ref(cell_ref)[2]
            s1 == [st EXCEPT !.current_row_cols_seen = Append(@, col)]
            patch == patch_for(s1, row_patches, col)
        IN IF IsSome(patch)
           THEN Write(s1, write_patched_cell(cell_ref, e, Unwrap(patch)))
           ELSE Write(s1, <<e>>)
    ELSE IF e.tag = "sheetData" THEN
        Write(write_all_rows(Write(st, <<StartEv("sheetData", <<>>)>>),
                             row_patches, Ascending(DOMAIN row_patches)),
              <<EndEv("sheetData")>>)
    ELSE WriteUnlessSkipping(st, e)

\* end_replaced_cell that goes on skipping
end_replaced_cell_still_skipping(st) == st

\* the end tag of a replaced cell: the replacement is already written
end_replaced_cell(st) == [st EXCEPT !.skip_until_cell_end = FALSE]

OnEnd(st, row_patches, e) ==
    IF e.tag = "c" /\ st.skip_until_cell_end THEN
        end_replaced_cell(st)
    ELSE IF e.tag = "row" /\ st.in_sheet_data THEN
        LET r == st.current_row
            s1 == IF IsSome(r) /\ Unwrap(r) \in DOMAIN row_patches
                  THEN append_new_cells(st, row_patches[Unwrap(r)],
                                        Ascending(DOMAIN row_patches[Unwrap(r)]), Unwrap(r))
                  ELSE st
        IN Write([s1 EXCEPT !.current_row = None], <<e>>)
    ELSE IF e.tag = "sheetData" THEN
        LET s1 == append_remaining_rows(st, row_patches, Ascending(DOMAIN row_patches))
        IN Write([s1 EXCEPT !.in_sheet_data = FALSE], <<e>>)
    ELSE WriteUnlessSkipping(st, e)

\* Text, CData, Comment, Decl, PI, DocType
OnOther(st, e) == WriteUnlessSkipping(st, e)

OnEvent(st, row_patches, e) ==
    CASE e.kind = "Start" -> OnStart(st, row_patches, e)
      [] e.kind = "Empty" -> OnEmpty(st, row_patches, e)
      [] e.kind = "End" -> OnEnd(st, row_patches, e)
      [] OTHER -> OnOther(st, e)

RECURSIVE run_loop(_, _, _)
run_loop(st, row_patches, events) ==
    IF events = <<>> THEN st
    ELSE run_loop(OnEvent(st, row_patches, Head(events)), row_patches, Tail(events))

patch_worksheet(doc, ps) ==
    IF ps = <<>> THEN doc
    ELSE run_loop(LoopInit, group_by_row(ps, <<>>), doc).out

----------------------------------------------------------------------------
(* Style table (styles.rs) *)

\* styles.xml is modelled by its five tables. A table is absent (None) or
\* Some of: the count attribute of its start tag (absent or a number), whether
\* the element is self-closed, and its child elements in document order.
Section(count, self_closed, items) ==
    [count |-> count, self_closed |-> self_closed, items |-> items]

SectionTags == {"numFmts", "fonts", "fills", "borders", "cellXfs"}

FontSpec(bold, italic, underline, strikethrough, name, size, color_rgb) ==
    [bold |-> bold, italic |-> italic, underline |-> underline,
     strikethrough |-> strikethrough, name |-> name, size |-> size, color_rgb |-> color_rgb]
FillSpec(pattern_type, fg_color_rgb) ==
    [pattern_type |-> pattern_type, fg_color_rgb |-> fg_color_rgb]
BorderSideSpec(style, color_rgb) == [style |-> style, color_rgb |-> color_rgb]
BorderSpec(left, right, top, bottom) ==
    [left |-> left, right |-> right, top |-> top, bottom |-> bottom]
AlignmentSpec(horizontal, vertical, wrap_text, indent, text_rotation) ==
    [horizontal |-> horizontal, vertical |-> vertical, wrap_text |-> wrap_text,
     indent |-> indent, text_rotation |-> text_rotation]
FormatSpec(font, fill, border, alignment, number_format) ==
    [font |-> font, fill |-> fill, border |-> border, alignment |-> alignment,
     number_format |-> number_format]

\* an element: its tag, its attributes and its child elements
Elem(tag, attrs, children) == [tag |-> tag, attrs |-> attrs, children |-> children]

font_to_xml(spec) ==
    Elem("font", <<>>,
         (IF spec.bold THEN <<Elem("b", <<>>, <<>>)>> ELSE <<>>)
         \o (IF spec.italic THEN <<Elem("i", <<>>, <<>>)>> ELSE <<>>)
         \o (IF spec.underline THEN <<Elem("u", <<>>, <<>>)>> ELSE <<>>)
         \o (IF spec.strikethrough THEN <<Elem("strike", <<>>, <<>>)>> ELSE <<>>)
         \o (IF IsSome(spec.size)
             THEN <<Elem("sz", <<Attr("val", to_string(Unwrap(spec.size)))>>, <<>>)>>
             ELSE <<>>)
         \o (IF IsSome(spec.color_rgb)
             THEN <<Elem("color", <<Attr("rgb", Unwrap(spec.color_rgb))>>, <<>>)>> ELSE <<>>)
         \o (IF IsSome(spec.name)
             THEN <<Elem("name", <<Attr("val", Unwrap(spec.name))>>, <<>>)>> ELSE <<>>))

fill_to_xml(spec) ==
    Elem("fill", <<>>,
         <<Elem("patternFill", <<Attr("patternType", spec.pattern_type)>>,
                IF IsSome(spec.fg_color_rgb)
                THEN <<Elem("fgColor", <<Attr("rgb", Unwrap(spec.fg_color_rgb))>>, <<>>)>>
                ELSE <<>>)>>)

side_xml(tag, side) ==
    IF IsSome(side.style) /\ IsSome(side.color_rgb) THEN
        Elem(tag, <<Attr("style", Unwrap(side.style))>>,
             <<Elem("color", <<Attr("rgb", Unwrap(side.color_rgb))>>, <<>>)>>)
    ELSE IF IsSome(side.style) THEN Elem(tag, <<Attr("style", Unwrap(side.style))>>, <<>>)
    ELSE Elem(tag, <<>>, <<>>)

border_to_xml(spec) ==
    Elem("border", <<>>,
         <<side_xml("left", spec.left), side_xml("right", spec.right),
           side_xml("top", spec.top), side_xml("bottom", spec.bottom),
           Elem("diagonal", <<>>, <<>>)>>)

alignment_attrs(align) ==
    (IF IsSome(align.horizontal) THEN <<Attr("horizontal", Unwrap(align.horizontal))>>
     ELSE <<>>)
    \o (IF IsSome(align.vertical) THEN <<Attr("vertical", Unwrap(align.vertical))>> ELSE <<>>)
    \o (IF align.wrap_text THEN <<Attr("wrapText", <<"1">>)>> ELSE <<>>)
    \o (IF align.indent > 0 THEN <<Attr("indent", to_string(align.indent))>> ELSE <<>>)
    \o (IF align.text_rotation > 0
        THEN <<Attr("textRotation", to_string(align.text_rotation))>> ELSE <<>>)

xf_to_xml(font_id, fill_id, border_id, num_fmt_id, alignment, apply_font, apply_fill, apply_border, apply_number_format) ==
    LET attrs ==
            <<Attr("numFmtId", to_string(num_fmt_id)), Attr("fontId", to_string(font_id)),
              Attr("fillId", to_string(fill_id)), Attr("borderId", to_string(border_id))>>
            \o (IF apply_font THEN <<Attr("applyFont", <<"1">>)>> ELSE <<>>)
            \o (IF apply_fill THEN <<Attr("applyFill", <<"1">>)>> ELSE <<>>)
            \o (IF apply_border THEN <<Attr("applyBorder", <<"1">>)>> ELSE <<>>)
            \o (IF apply_number_format THEN <<Attr("applyNumberFormat", <<"1">>)>> ELSE <<>>)
    IN IF IsSome(alignment) /\ alignment_attrs(Unwrap(alignment)) # <<>>
       THEN Elem("xf", attrs \o <<Attr("applyAlignment", <<"1">>)>>,
                 <<Elem("alignment", alignment_attrs(Unwrap(alignment)), <<>>)>>)
       ELSE Elem("xf", attrs, <<>>)

\* count="N" of the start tag, if it has one
extract_count_attr(section) == section.count

\* update_count_attr that leaves the count as it is
update_count_attr_unchanged(section, new_count) == section

\* count="N" rewritten; a start tag without count stays as it is
update_count_attr(section, new_count) ==
    IF IsSome(section.count) THEN [section EXCEPT !.count = Some(new_count)] ELSE section

\* the element appended before the closing tag of the table and the count
\* bumped: <<updated styles, index>>. Without a closing tag nothing changes
\* and the index is 0.
inject_into_section(styles, section_tag, new_element) ==
    IF styles[section_tag] = None \/ Unwrap(styles[section_tag]).self_closed
    THEN <<styles, 0>>
    ELSE LET section == Unwrap(styles[section_tag])
             existing_count == IF IsSome(extract_count_attr(section))
                               THEN Unwrap(extract_count_attr(section)) ELSE 0
             new_count == existing_count + 1
             new_index == existing_count
             updated == [update_count_attr(section, new_count)
                            EXCEPT !.items = Append(@, new_element)]
         IN <<[styles EXCEPT ![section_tag] = Some(updated)], new_index>>

BuiltinNumFmts ==
    <<
       <<<<"G", "e", "n", "e", "r", "a", "l">>, 0>>,
       <<<<"0">>, 1>>,
       <<<<"0", ".", "0", "0">>, 2>>,
       <<<<"#", ",", "#", "#", "0">>, 3>>,
       <<<<"#", ",", "#", "#", "0", ".", "0", "0">>, 4>>,
       <<<<"0", "%">>, 9>>,
       <<<<"0", ".", "0", "0", "%">>, 10>>,
       <<<<"0", ".", "0", "0", "E", "+", "0", "0">>, 11>>,
       <<<<"m", "m", "-", "d", "d", "-", "y", "y">>, 14>>,
       <<<<"d", "-", "m", "m", "m", "-", "y", "y">>, 15>>,
       <<<<"d", "-", "m", "m", "m">>, 16>>,
       <<<<"m", "m", "m", "-", "y", "y">>, 17>>,
       <<<<"h", ":", "m", "m", " ", "A", "M", "/", "P", "M">>, 18>>,
       <<<<"h", ":", "m", "m", ":", "s", "s", " ", "A", "M", "/", "P", "M">>, 19>>,
       <<<<"h", ":", "m", "m">>, 20>>,
       <<<<"h", ":", "m", "m", ":", "s", "s">>, 21>>,
       <<<<"m", "/", "d", "/", "y", "y", " ", "h", ":", "m", "m">>, 22>>,
       <<<<"@">>, 49>>
    >>

builtin_num_fmt_id(code) ==
    IF \E i \in DOMAIN BuiltinNumFmts : BuiltinNumFmts[i][1] = code
    THEN Some(BuiltinNumFmts[CHOOSE i \in DOMAIN BuiltinNumFmts : BuiltinNumFmts[i][1] = code][2])
    ELSE None

xml_escape_char(ch) ==
    CASE ch = "&" -> <<"&", "a", "m", "p", ";">>
      [] ch = "<" -> <<"&", "l", "t", ";">>
      [] ch = ">" -> <<"&", "g", "t", ";">>
      [] ch = "\"" -> <<"&", "q", "u", "o", "t", ";">>
      [] OTHER -> <<ch>>

RECURSIVE xml_escape(_)
xml_escape(s) == IF s = <<>> THEN <<>> ELSE xml_escape_char(Head(s)) \o xml_escape(Tail(s))

\* the numFmt elements of the document in document order
num_fmt_elements(styles) ==
    IF IsSome(styles["numFmts"]) THEN Unwrap(styles["numFmts"]).items ELSE <<>>

elem_attr(e, key) == attr_value([attrs |-> e.attrs], key)

num_fmt_id_of(e) ==
    LET id == elem_attr(e, "numFmtId") IN
    IF IsSome(id) /\ IsSome(parse_u32(Unwrap(id))) THEN Unwrap(parse_u32(Unwrap(id))) ELSE 0

num_fmt_code_of(e) ==
    IF IsSome(elem_attr(e, "formatCode")) THEN Unwrap(elem_attr(e, "formatCode")) ELSE <<>>

\* the scan of the numFmt elements: Some(id) of the first one with the code,
\* or None and the largest id seen (163 at least)
RECURSIVE scan_num_fmts(_, _, _)
scan_num_fmts(elements, format_code, max_id) ==
    IF elements = <<>> THEN [found |-> None, max_id |-> max_id]
    ELSE LET id == num_fmt_id_of(Head(elements)) IN
         IF num_fmt_code_of(Head(elements)) = format_code
         THEN [found |-> Some(id), max_id |-> max_id]
         ELSE scan_num_fmts(Tail(elements), format_code, IF id > max_id THEN id ELSE max_id)

find_or_create_num_fmt(styles, format_code) ==
    IF IsSome(builtin_num_fmt_id(format_code))
    THEN <<styles, Unwrap(builtin_num_fmt_id(format_code))>>
    ELSE LET scan == scan_num_fmts(num_fmt_elements(styles), format_code, 163) IN
         IF IsSome(scan.found) THEN <<styles, Unwrap(scan.found)>>
         ELSE LET new_id == scan.max_id + 1
                  new_element == Elem("numFmt",
                                      <<Attr("numFmtId", to_string(new_id)),
                                        Attr("formatCode", xml_escape(format_code))>>, <<>>)
              IN IF IsSome(styles["numFmts"])
                 THEN <<inject_into_section(styles, "numFmts", new_element)[1], new_id>>
                 ELSE IF IsSome(styles["fonts"])
                 THEN <<[styles EXCEPT !["numFmts"] =
                                           Some(Section(Some(1), FALSE, <<new_element>>))],
                        new_id>>
                 ELSE <<styles, new_id>>

\* the ids resolved so far and the styles XML they were resolved against
Resolved(acc, component, r) == [acc EXCEPT !.xml = r[1], ![component] = r[2]]

\* 1. Font
resolve_font(acc, spec) ==
    Resolved(acc, "font_id",
             IF IsSome(spec.font)
             THEN inject_into_section(acc.xml, "fonts", font_to_xml(Unwrap(spec.font)))
             ELSE <<acc.xml, 0>>)

\* 2. Fill
resolve_fill(acc, spec) ==
    Resolved(acc, "fill_id",
             IF IsSome(spec.fill)
             THEN inject_into_section(acc.xml, "fills", fill_to_xml(Unwrap(spec.fill)))
             ELSE <<acc.xml, 0>>)

\* 3. Border
resolve_border(acc, spec) ==
    Resolved(acc, "border_id",
             IF IsSome(spec.border)
             THEN inject_into_section(acc.xml, "borders", border_to_xml(Unwrap(spec.border)))
             ELSE <<acc.xml, 0>>)

\* 4. Number format
resolve_num_fmt(acc, spec) ==
    Resolved(acc, "num_fmt_id",
             IF IsSome(spec.number_format)
             THEN find_or_create_num_fmt(acc.xml, Unwrap(spec.number_format))
             ELSE <<acc.xml, 0>>)

\* 5. Create cellXfs entry
create_xf(acc, spec) ==
    inject_into_section(
        acc.xml, "cellXfs",
        xf_to_xml(acc.font_id, acc.fill_id, acc.border_id, acc.num_fmt_id, spec.alignment,
                  IsSome(spec.font), IsSome(spec.fill), IsSome(spec.border),
                  IsSome(spec.number_format)))

\* <<updated styles, xf index>>
apply_format_spec(styles, spec) ==
    create_xf(
        resolve_num_fmt(
            resolve_border(
                resolve_fill(
                    resolve_font([xml |-> styles, font_id |-> 0, fill_id |-> 0,
                                  border_id |-> 0, num_fmt_id |-> 0], spec),
                    spec),
                spec),
            spec),
        spec)

----------------------------------------------------------------------------
(* Cell references and dict conversion of the patcher (util.rs, mod.rs) *)

to_ascii_uppercase(ch) ==
    IF ch \in Range(LowerLetters) THEN UpperLetters[IndexIn(LowerLetters, ch)] ELSE ch

to_uppercase(s) == [i \in DOMAIN s |-> to_ascii_uppercase(s[i])]

\* the loop over the characters: None at a character that is neither a letter
\* nor a digit, else <<col, row_digits>>
RECURSIVE a1_scan(_, _, _)
a1_scan(a1, col, row_digits) ==
    IF a1 = <<>> THEN Some(<<col, row_digits>>)
    ELSE LET ch == Head(a1) IN
         IF is_ascii_alphabetic(ch)
         THEN a1_scan(Tail(a1), col * 26 + LetterVal(ch), row_digits)
         ELSE IF is_ascii_digit(ch) THEN a1_scan(Tail(a1), col, Append(row_digits, ch))
         ELSE None

\* Ok((row, col)), both 0-based, as Some(<<row, col>>); Err as None
a1_to_row_col(a1) ==
    LET scan == a1_scan(a1, 0, <<>>) IN
    IF scan = None THEN None
    ELSE LET col == Unwrap(scan)[1]
             row_digits == Unwrap(scan)[2]
         IN IF col = 0 \/ row_digits = <<>> THEN None
            ELSE IF DigitsValue(row_digits) = 0 THEN None
            ELSE Some(<<DigitsValue(row_digits) - 1, col - 1>>)

\* a Python dict is a function from its keys; d.get_item(key) of a typed value
extract(d, key) == IF key \in DOMAIN d THEN Some(d[key]) ELSE None

\* a.or(b)
Or(a, b) == IF IsSome(a) THEN a ELSE b

unwrap_or(a, default) == IF IsSome(a) THEN Unwrap(a) ELSE default

RECURSIVE trim_start_matches(_, _)
trim_start_matches(s, ch) ==
    IF s # <<>> /\ Head(s) = ch THEN trim_start_matches(Tail(s), ch) ELSE s

normalize_color(color) ==
    LET hex == trim_start_matches(color, "#") IN
    IF Len(hex) = 6 THEN <<"F", "F">> \o to_uppercase(hex)
    ELSE IF Len(hex) = 8 THEN to_uppercase(hex)
    ELSE <<"F", "F">> \o hex

map_normalize_color(o) == IF IsSome(o) THEN Some(normalize_color(Unwrap(o))) ELSE None

FormatSpec_default == FormatSpec(None, None, None, None, None)

dict_to_format_spec(d) ==
    LET bold == extract(d, "bold")
        italic == extract(d, "italic")
        underline == extract(d, "underline")
        strikethrough == extract(d, "strikethrough")
        font_name == extract(d, "font_name")
        font_size == extract(d, "font_size")
        font_color == extract(d, "font_color")
        bg_color == extract(d, "bg_color")
        horizontal == Or(extract(d, "horizontal"), extract(d, "h_align"))
        vertical == Or(extract(d, "vertical"), extract(d, "v_align"))
        wrap_text == Or(extract(d, "wrap_text"), extract(d, "wrap"))
        indent == extract(d, "indent")
        text_rotation == Or(extract(d, "text_rotation"), extract(d, "rotation"))
    IN FormatSpec(
           IF \/ IsSome(bold) \/ IsSome(italic) \/ IsSome(underline)
              \/ IsSome(strikethrough) \/ IsSome(font_name) \/ IsSome(font_size)
              \/ IsSome(font_color)
           THEN Some(FontSpec(unwrap_or(bold, FALSE), unwrap_or(italic, FALSE),
                              unwrap_or(underline, FALSE), unwrap_or(strikethrough, FALSE),
                              font_name, font_size, map_normalize_color(font_color)))
           ELSE None,
           IF IsSome(bg_color)
           THEN Some(FillSpec(<<"s", "o", "l", "i", "d">>,
                              Some(normalize_color(Unwrap(bg_color)))))
           ELSE None,
           None,
           IF \/ IsSome(horizontal) \/ IsSome(vertical) \/ IsSome(wrap_text)
              \/ IsSome(indent) \/ IsSome(text_rotation)
           THEN Some(AlignmentSpec(horizontal, vertical, unwrap_or(wrap_text, FALSE),
                                   unwrap_or(indent, 0), unwrap_or(text_rotation, 0)))
           ELSE None,
           extract(d, "number_format"))

\* a value of a border dict: a dict of its own, or something else
PyDict(items) == [is_dict |-> TRUE, items |-> items]
PyOther == [is_dict |-> FALSE, items |-> [repr |-> <<"t", "h", "i", "n">>]]

BorderSideSpec_default == BorderSideSpec(None, None)

extract_side(d, key) ==
    IF key \in DOMAIN d /\ d[key].is_dict
    THEN BorderSideSpec(extract(d[key].items, "style"),
                        map_normalize_color(extract(d[key].items, "color")))
    ELSE BorderSideSpec_default

dict_to_border_spec(d) ==
    BorderSpec(extract_side(d, "left"), extract_side(d, "right"),
               extract_side(d, "top"), extract_side(d, "bottom"))

----------------------------------------------------------------------------
(* The patch queue of XlsxPatcher (mod.rs) *)

\* a HashMap is the set of its <<key, value>> entries
contains_key(map, key) == \E e \in map : e[1] = key
get(map, key) == IF contains_key(map, key)
                 THEN Some((CHOOSE e \in map : e[1] = key)[2]) ELSE None
keys(map) == {e[1] : e \in map}

\* insert that keeps the entry the key already has
insert_beside(map, key, value) == map \cup {<<key, value>>}

\* HashMap::insert: the entry of the key replaced
insert(map, key, value) == {e \in map : e[1] # key} \cup {<<key, value>>}

\* a Python value: its type and what it holds (a number in tenths)
PyStr(text) == [ty |-> "str", str |-> text, num |-> 0, bool |-> FALSE]
PyFloat(n) == [ty |-> "float", str |-> <<>>, num |-> n, bool |-> FALSE]
PyInt(n) == [ty |-> "int", str |-> <<>>, num |-> n, bool |-> FALSE]
PyBool(b) == [ty |-> "bool", str |-> <<>>, num |-> IF b THEN 10 ELSE 0, bool |-> b]
\* the "type" of a payload
PyTypeName(name) == [ty |-> "str", name |-> name]

\* payload.get_item("value") extracted as the Rust type: Ok(Some(v)), Ok(None)
\* for a missing key, or Err for a value of another Python type
extract_as(payload, key, types) ==
    IF key \notin DOMAIN payload THEN [ok |-> TRUE, v |-> None]
    ELSE IF payload[key].ty \in types THEN [ok |-> TRUE, v |-> Some(payload[key])]
    ELSE [ok |-> FALSE, v |-> None]

strip_prefix(s, ch) == IF s # <<>> /\ Head(s) = ch THEN Some(Tail(s)) ELSE None

\* the CellValue of the payload: Some(value), or None for an error
payload_value(payload) ==
    LET ty == extract_as(payload, "type", {"str"})
        cell_type == IF IsSome(ty.v) THEN Unwrap(ty.v).name ELSE ""
        str == extract_as(payload, "value", {"str"})
        num == extract_as(payload, "value", {"float", "int", "bool"})
        bool == extract_as(payload, "value", {"bool"})
    IN IF ~ty.ok THEN None
       ELSE IF cell_type = "blank" THEN Some(Blank)
       ELSE IF cell_type \in {"string", "str"} THEN
           IF str.ok THEN Some(String(IF IsSome(str.v) THEN Unwrap(str.v).str ELSE <<>>)) ELSE None
       ELSE IF cell_type \in {"number", "float", "int", "integer"} THEN
           IF num.ok THEN Some(Number(IF IsSome(num.v) THEN Unwrap(num.v).num ELSE 0)) ELSE None
       ELSE IF cell_type \in {"boolean", "bool"} THEN
           IF bool.ok THEN Some(Boolean(IF IsSome(bool.v) THEN Unwrap(bool.v).bool ELSE FALSE))
           ELSE None
       ELSE IF cell_type = "formula" THEN
           IF str.ok
           THEN LET v == IF IsSome(str.v) THEN Unwrap(str.v).str ELSE <<>>
                IN Some(Formula(unwrap_or(strip_prefix(v, "="), v)))
           ELSE None
       ELSE None

\* the patcher: [sheet_paths, value_patches, format_patches]; every queue
\* call gives [ok, self]: whether it returned Ok and the patcher after it
queue_value(self, sheet, cell, payload) ==
    LET value == payload_value(payload)
        rc == a1_to_row_col(cell)
    IN IF value = None \/ rc = None THEN [ok |-> FALSE, self |-> self]
       ELSE LET patch == CellPatch(Unwrap(rc)[1] + 1, Unwrap(rc)[2] + 1, value, None)
            IN [ok |-> TRUE,
                self |-> [self EXCEPT !.value_patches = insert(@, <<sheet, cell>>, patch)]]

queue_format(self, sheet, cell, format_dict) ==
    LET spec == dict_to_format_spec(format_dict)
    IN [ok |-> TRUE,
        self |-> [self EXCEPT !.format_patches = insert(@, <<sheet, cell>>, spec)]]

\* queue_border that stores a fresh spec holding the border alone
queue_border_replacing(self, sheet, cell, border_dict) ==
    [ok |-> TRUE,
     self |-> [self EXCEPT !.format_patches =
                  insert(@, <<sheet, cell>>,
                         [FormatSpec_default EXCEPT !.border = Some(dict_to_border_spec(border_dict))])]]

queue_border(self, sheet, cell, border_dict) ==
    LET border == dict_to_border_spec(border_dict)
        key == <<sheet, cell>>
        spec == unwrap_or(get(self.format_patches, key), FormatSpec_default)
    IN [ok |-> TRUE,
        self |-> [self EXCEPT !.format_patches =
                                  insert(@, key, [spec EXCEPT !.border = Some(border)])]]

----------------------------------------------------------------------------
(* The styles part of a package that has none (mod.rs) *)

DefaultFont ==
    Elem("font", <<>>, <<Elem("sz", <<Attr("val", <<"1", "1">>)>>, <<>>),
                         Elem("name", <<Attr("val", <<"C", "a", "l", "i", "b", "r", "i">>)>>, <<>>)>>)
PatternFill(pattern) ==
    Elem("fill", <<>>, <<Elem("patternFill", <<Attr("patternType", pattern)>>, <<>>)>>)
DefaultBorder ==
    Elem("border", <<>>, <<Elem("left", <<>>, <<>>), Elem("right", <<>>, <<>>),
                           Elem("top", <<>>, <<>>), Elem("bottom", <<>>, <<>>),
                           Elem("diagonal", <<>>, <<>>)>>)
DefaultXf == xf_to_xml(0, 0, 0, 0, None, FALSE, FALSE, FALSE, FALSE)

\* the styles part written for a package that has none
minimal_styles_xml ==
    [tag \in SectionTags |->
        CASE tag = "numFmts" -> None
          [] tag = "fonts" -> Some(Section(Some(1), FALSE, <<DefaultFont>>))
          [] tag = "fills" -> Some(Section(Some(2), FALSE,
                                           <<PatternFill(<<"n", "o", "n", "e">>), PatternFill(<<"g", "r", "a", "y", "1", "2", "5">>)>>))
          [] tag = "borders" -> Some(Section(Some(1), FALSE, <<DefaultBorder>>))
          [] tag = "cellXfs" -> Some(Section(Some(1), FALSE, <<DefaultXf>>))]

----------------------------------------------------------------------------
(* Files and archives; save (mod.rs) *)

\* An archive entry: its name, whether it is a directory, its options
\* (compression method, modification time, unix mode) and its data, which is a
\* worksheet document, a styles part or other bytes.
Entry(name, is_dir, opts, sheet, styles, other) ==
    [name |-> name, is_dir |-> is_dir, opts |-> opts,
     sheet |-> sheet, styles |-> styles, other |-> other]

NoStyles == [tag \in SectionTags |-> None]

\* The options of an entry: its compression method, its modification time
\* and its unix mode, the last two absent on an entry that has none; on an
\* entry handed to the writer an absent one is left to the writer's default.
FileOptions(compression, last_modified, unix_mode) ==
    [compression |-> compression, last_modified |-> last_modified, unix_mode |-> unix_mode]

SheetEntry(name, doc) ==
    Entry(name, FALSE, FileOptions("deflated", Some("2024-01-01"), None), doc, NoStyles, "")
StylesEntry(styles) ==
    Entry("xl/styles.xml", FALSE, FileOptions("deflated", Some("2023-05-05"), Some(420)), <<>>, styles, "")
OtherEntry(name, bytes) ==
    Entry(name, FALSE, FileOptions("stored", None, Some(384)), <<>>, NoStyles, bytes)
DirEntry(name) ==
    Entry(name, TRUE, FileOptions("stored", Some("2024-01-01"), Some(493)), <<>>, NoStyles, "")

\* A file: the container it was written as ("original" for the bytes of the
\* source, "rezipped" for what ZipWriter wrote, "broken" for a file that is no
\* archive) and the entries of the archive in order.
File(container, entries) == [container |-> container, entries |-> entries]
Broken == File("broken", <<>>)

file_path == "book.xlsx"
tmp_path == "book.xlsx.wolfxl.tmp"
OtherPath == "out.xlsx"
\* a path in a directory that does not exist: File::create and copy fail
UnwritablePath == "missing/out.xlsx"
Paths == {file_path, tmp_path, OtherPath, UnwritablePath}

\* zip.by_name(name)
by_name(file, name) ==
    IF \E i \in DOMAIN file.entries : file.entries[i].name = name
    THEN Some(file.entries[CHOOSE i \in DOMAIN file.entries : file.entries[i].name = name])
    ELSE None

\* File::open and ZipArchive::new of the source succeed
can_read_archive(files, path) == IsSome(files[path]) /\ Unwrap(files[path]).container # "broken"

\* format!("{sheet}:{cell}")
style_key(sheet, cell) == sheet \o <<":">> \o cell

\* Phase 1: the format patches resolved in the order the map yields them:
\* [xml, style_assignments]
RECURSIVE assign_styles(_, _, _, _)
RECURSIVE assign_style(_, _, _, _, _)
assign_style(r, key, order, format_patches, style_assignments) ==
    assign_styles(r[1], order, format_patches,
                  insert(style_assignments, style_key(key[1], key[2]), r[2]))

assign_styles(styles, order, format_patches, style_assignments) ==
    IF order = <<>> THEN [xml |-> styles, style_assignments |-> style_assignments]
    ELSE assign_style(apply_format_spec(styles, Unwrap(get(format_patches, Head(order)))),
                      Head(order), Tail(order), format_patches, style_assignments)

\* sheet_cell_patches.entry(path).or_default().push(p)
push_patch(sheet_cell_patches, path, p) ==
    insert(sheet_cell_patches, path, Append(unwrap_or(get(sheet_cell_patches, path), <<>>), p))

\* Phase 2, value patches
RECURSIVE collect_value_patches(_, _, _, _)
collect_value_patches(self, order, style_assignments, sheet_cell_patches) ==
    IF order = <<>> THEN sheet_cell_patches
    ELSE LET key == Head(order)
             sheet_path == get(self.sheet_paths, key[1])
             patch == Unwrap(get(self.value_patches, key))
             xf_idx == get(style_assignments, style_key(key[1], key[2]))
             p == IF IsSome(xf_idx) THEN [patch EXCEPT !.style_index = xf_idx] ELSE patch
         IN collect_value_patches(
                self, Tail(order), style_assignments,
                IF sheet_path = None THEN sheet_cell_patches
                ELSE push_patch(sheet_cell_patches, Unwrap(sheet_path), p))

\* Phase 2, format-only patches: Some(sheet_cell_patches), or None for the
\* error of a cell that is no A1 reference
RECURSIVE collect_format_patches(_, _, _, _)
collect_format_patches(self, order, style_assignments, sheet_cell_patches) ==
    IF order = <<>> THEN Some(sheet_cell_patches)
    ELSE LET key == Head(order)
             sheet_path == get(self.sheet_paths, key[1])
             xf_idx == get(style_assignments, style_key(key[1], key[2]))
             rc == a1_to_row_col(key[2])
         IN IF contains_key(self.value_patches, key) \/ sheet_path = None \/ xf_idx = None
            THEN collect_format_patches(self, Tail(order), style_assignments,
                                        sheet_cell_patches)
            ELSE IF rc = None THEN None
            ELSE collect_format_patches(
                     self, Tail(order), style_assignments,
                     push_patch(sheet_cell_patches, Unwrap(sheet_path),
                                CellPatch(Unwrap(rc)[1] + 1, Unwrap(rc)[2] + 1, None, xf_idx)))

SimpleFileOptions_default == FileOptions("deflated", None, None)

\* options that take nothing from the entry read
entry_options_default(file) == SimpleFileOptions_default

\* Phase 4: the options an entry is written with
entry_options(file) ==
    FileOptions(file.opts.compression,
                IF IsSome(file.opts.last_modified) THEN file.opts.last_modified
                ELSE SimpleFileOptions_default.last_modified,
                IF IsSome(file.opts.unix_mode) THEN file.opts.unix_mode
                ELSE SimpleFileOptions_default.unix_mode)

\* Phase 4: the data written for a file entry of the source
entry_data(entry, sheet_cell_patches, styles_xml) ==
    IF contains_key(sheet_cell_patches, entry.name)
    THEN [entry EXCEPT !.sheet = patch_worksheet(entry.sheet,
                                                 Unwrap(get(sheet_cell_patches, entry.name)))]
    ELSE IF IsSome(styles_xml) /\ entry.name = "xl/styles.xml"
    THEN [entry EXCEPT !.styles = Unwrap(styles_xml)]
    ELSE entry

\* Phase 4: the entry written for an entry of the source
rewrite_entry(entry, sheet_cell_patches, styles_xml) ==
    [(IF entry.is_dir THEN entry ELSE entry_data(entry, sheet_cell_patches, styles_xml))
        EXCEPT !.opts = entry_options(entry)]

Failed(files) == [ok |-> FALSE, files |-> files]
Succeeded(files) == [ok |-> TRUE, files |-> files]

styles_patch(resolved) ==
    [styles_xml |-> Some(resolved.xml), style_assignments |-> resolved.style_assignments]

\* Phase 1: [styles_xml, style_assignments]; the styles part is read, or
\* minimal_styles_xml taken, only when there are format patches
resolve_styles(self, zip, format_order) ==
    IF self.format_patches # {}
    THEN styles_patch(assign_styles(
             IF IsSome(by_name(zip, "xl/styles.xml"))
             THEN Unwrap(by_name(zip, "xl/styles.xml")).styles
             ELSE minimal_styles_xml,
             format_order, self.format_patches, {}))
    ELSE [styles_xml |-> None, style_assignments |-> {}]

\* Phase 2: Some(sheet_cell_patches), or None for an error
build_cell_patches(self, value_order, format_order, style_assignments) ==
    collect_format_patches(self, format_order, style_assignments,
                           collect_value_patches(self, value_order, style_assignments, {}))

\* Phases 3 and 4: every patched sheet read and patched, then the archive
\* written entry by entry
write_archive(files, output_path, zip, sheet_cell_patches, styles_xml) ==
    IF sheet_cell_patches = None THEN Failed(files)
    ELSE IF \E path \in keys(Unwrap(sheet_cell_patches)) : by_name(zip, path) = None
    THEN Failed(files)
    ELSE IF output_path = UnwritablePath THEN Failed(files)
    ELSE IF output_path = file_path
    THEN \* File::create truncates the file the archive is being read from
         Failed([files EXCEPT ![output_path] = Some(Broken)])
    ELSE Succeeded([files EXCEPT ![output_path] =
             Some(File("rezipped",
                       [i \in DOMAIN zip.entries |->
                           rewrite_entry(zip.entries[i], Unwrap(sheet_cell_patches),
                                         styles_xml)]))])

patch_and_write(self, files, output_path, value_order, format_order, phase1) ==
    write_archive(files, output_path, Unwrap(files[file_path]),
                  build_cell_patches(self, value_order, format_order,
                                     phase1.style_assignments),
                  phase1.styles_xml)

\* the rewrite with the two maps iterated in the given orders
rewrite(self, files, output_path, value_order, format_order) ==
    patch_and_write(self, files, output_path, value_order, format_order,
                    resolve_styles(self, Unwrap(files[file_path]), format_order))

\* the sequences that list the elements of a set once each
Orders(S) == {o \in [1..Cardinality(S) -> S] : \A x \in S : \E i \in DOMAIN o : o[i] = x}

\* std::fs::copy(from, to); onto the file itself it truncates the file or
\* fails, depending on the platform
copy_file(files, from, to) ==
    IF files[from] = None \/ to = UnwritablePath THEN {Failed(files)}
    ELSE IF from = to THEN {Succeeded([files EXCEPT ![to] = Some(Broken)]), Failed(files)}
    ELSE {Succeeded([files EXCEPT ![to] = files[from]])}

\* the outcomes of do_save: [ok, files]
do_save(self, files, output_path) ==
    IF self.value_patches = {} /\ self.format_patches = {}
    THEN copy_file(files, file_path, output_path)
    ELSE IF ~can_read_archive(files, file_path) THEN {Failed(files)}
    ELSE {rewrite(self, files, output_path, value_order, format_order) :
            value_order \in Orders(keys(self.value_patches)),
            format_order \in Orders(keys(self.format_patches))}

save(self, files, path) == do_save(self, files, path)

\* a save that takes the queue with it
self_drained(self) == [self EXCEPT !.value_patches = {}, !.format_patches = {}]

\* save, save_in_place and do_save borrow the patcher (&self): the patcher
\* after the call
self_borrowed(self) == self

\* std::fs::rename(from, to) when it succeeds
rename(files, from, to) == [files EXCEPT ![to] = files[from], ![from] = None]

\* std::fs::remove_file(path) when it succeeds
remove_file(files, path) == [files EXCEPT ![path] = None]

Replaced(ok, files, steps) == [ok |-> ok, files |-> files, steps |-> steps]

\* after do_save wrote the temporary file: the rename, and when it fails the
\* removal of the original (which may fail too) and a second rename
\* [ok, files, steps]: steps are the file system calls made after do_save
replace_original(files) ==
    {Replaced(TRUE, rename(files, tmp_path, file_path), <<"rename">>)}
    \cup {Replaced(TRUE, rename(after_remove, tmp_path, file_path),
                   <<"rename", "remove_file", "rename">>) :
            after_remove \in {files, remove_file(files, file_path)}}
    \cup {Replaced(FALSE, after_remove, <<"rename", "remove_file", "rename">>) :
            after_remove \in {files, remove_file(files, file_path)}}

save_in_place(self, files) ==
    UNION {IF saved.ok THEN replace_original(saved.files)
           ELSE {Replaced(FALSE, saved.files, <<>>)} :
            saved \in do_save(self, files, tmp_path)}

----------------------------------------------------------------------------
(* Worksheet documents and patch slices the patcher is run on *)

Rows == 1..MaxRow
Cols == 1..MaxCol

\* <c> elements as they occur in worksheet parts: the attributes after r, the
\* children, and whether the element is self-closed
CellShapes ==
    << \* <c r=".." s="1"><v>42</v></c>
       [attrs |-> <<Attr("s", <<"1">>)>>, empty |-> FALSE,
        children |-> value_element("v", <<"4", "2">>)],
       \* <c r=".." t="s"><v>0</v></c>
       [attrs |-> <<Attr("t", <<"s">>)>>, empty |-> FALSE,
        children |-> value_element("v", <<"0">>)],
       \* <c r=".." s="2" cm="1"><f>B9</f><v>10</v></c>
       [attrs |-> <<Attr("s", <<"2">>), Attr("cm", <<"1">>)>>, empty |-> FALSE,
        children |-> value_element("f", <<"B", "9">>) \o value_element("v", <<"1", "0">>)],
       \* <c r=".." t="inlineStr"><is><t>x</t></is></c>
       [attrs |-> <<Attr("t", <<"i", "n", "l", "i", "n", "e", "S", "t", "r">>)>>,
        empty |-> FALSE,
        children |-> <<StartEv("is", <<>>)>> \o value_element("t", <<"x">>)
                     \o <<EndEv("is")>>],
       \* <c r=".." s="3" t="s" ph="1"/>
       [attrs |-> <<Attr("s", <<"3">>), Attr("t", <<"s">>), Attr("ph", <<"1">>)>>,
        empty |-> TRUE, children |-> <<>>],
       \* <c r=".."/>
       [attrs |-> <<>>, empty |-> TRUE, children |-> <<>>],
       \* <c r=".." s="0"><v>7</v></c>
       [attrs |-> <<Attr("s", <<"0">>)>>, empty |-> FALSE,
        children |-> value_element("v", <<"7">>)] >>

CellElement(row, col, shape) ==
    LET attrs == <<Attr("r", col_row_to_a1(col, row))>> \o shape.attrs IN
    IF shape.empty THEN <<EmptyEv("c", attrs)>>
    ELSE <<StartEv("c", attrs)>> \o shape.children \o <<EndEv("c")>>

\* the shape of the cell at (row, col) in the document numbered k
ShapeAt(row, col, k) == CellShapes[((row * MaxCol + col + k) % Len(CellShapes)) + 1]

RECURSIVE CellElements(_, _, _)
CellElements(row, cols, k) ==
    IF cols = <<>> THEN <<>>
    ELSE CellElement(row, Head(cols), ShapeAt(row, Head(cols), k))
         \o CellElements(row, Tail(cols), k)

RowForms == {"absent", "empty", "open"}

RowElement(row, form, cols, k) ==
    LET attrs == <<Attr("r", to_string(row)), Attr("ht", <<"2", "0">>)>> IN
    CASE form = "absent" -> <<>>
      [] form = "empty" -> <<EmptyEv("row", attrs)>>
      [] form = "open" ->
            <<StartEv("row", attrs)>> \o CellElements(row, Ascending(cols), k)
            \o <<EndEv("row")>>

RECURSIVE RowElements(_, _, _, _)
RowElements(rows, forms, cols, k) ==
    IF rows = <<>> THEN <<>>
    ELSE RowElement(Head(rows), forms[Head(rows)], cols, k)
         \o RowElements(Tail(rows), forms, cols, k)

BeforeSheetData ==
    <<StartEv("worksheet", <<>>), StartEv("cols", <<>>),
      EmptyEv("col", <<Attr("min", <<"1">>)>>), EndEv("cols")>>
AfterSheetData == <<EmptyEv("pageMargins", <<Attr("left", <<"1">>)>>), EndEv("worksheet")>>

\* a worksheet whose rows are in ascending order; an open row holds the columns
\* cols in ascending order
Worksheet(forms, cols, k) ==
    BeforeSheetData
    \o <<StartEv("sheetData", <<>>), TextEv(<<"\n">>)>>
    \o RowElements(Ascending(Rows), forms, cols, k)
    \o <<EndEv("sheetData")>>
    \o AfterSheetData

\* <worksheet>..<sheetData/>..</worksheet>
EmptyWorksheet == BeforeSheetData \o <<EmptyEv("sheetData", <<>>)>> \o AfterSheetData

\* what a patch carries: the value, and the style index
PatchKinds ==
    << <<Some(String(<<"a", "&", "<", ">">>)), None>>,
       <<None, Some(5)>>,
       <<Some(Number(990)), None>>,
       <<Some(Formula(<<"S", "U", "M", "(", "B", "1", ")">>)), None>>,
       <<Some(Boolean(TRUE)), None>>,
       <<Some(Blank), Some(5)>>,
       <<Some(Number(15)), Some(5)>>,
       <<Some(Boolean(FALSE)), Some(7)>>,
       <<Some(Number(-20)), None>>,
       <<Some(Blank), None>>,
       <<Some(Formula(<<"A", "1", "<", "2">>)), Some(5)>> >>

Positions == Rows \X Cols
PositionIndex(p) == (p[1] - 1) * MaxCol + p[2]

\* the positions of a set by row, then column
RECURSIVE InOrder(_)
InOrder(S) ==
    IF S = {} THEN <<>>
    ELSE LET m == CHOOSE x \in S : \A y \in S : PositionIndex(x) <= PositionIndex(y)
         IN <<m>> \o InOrder(S \ {m})

\* one patch per position; the j-th takes the kind numbered j + kv
PatchSlice(S, kv) ==
    LET ps == InOrder(S) IN
    [j \in 1..Len(ps) |->
        LET kind == PatchKinds[((j + kv) % Len(PatchKinds)) + 1]
        IN CellPatch(ps[j][1], ps[j][2], kind[1], kind[2])]

PositionSets == {S \in SUBSET Positions : Cardinality(S) <= MaxPatches}

\* documents that vary in which rows they hold and how; an open row holds the
\* last column
StructureInputs ==
    {<<Worksheet(forms, {MaxCol}, 0), PatchSlice(S, 0)>> :
        forms \in [Rows -> RowForms], S \in PositionSets}
    \cup {<<EmptyWorksheet, PatchSlice(S, 0)>> : S \in PositionSets}

\* documents of one open row that vary in what the cells hold and what the
\* patches carry
ContentInputs ==
    {<<Worksheet([r \in Rows |-> IF r = 1 THEN "open" ELSE "absent"], cols, k),
       PatchSlice(S, kv)>> :
        cols \in SUBSET Cols, k \in 0..(Len(CellShapes) - 1),
        S \in {T \in PositionSets : \A p \in T : p[1] = 1},
        kv \in 0..(Len(PatchKinds) - 1)}

----------------------------------------------------------------------------
(* Specification of the worksheet patcher *)

NoCall ==
    [op |-> "none", sheet |-> <<>>, cell |-> <<>>, arg |-> <<>>, path |-> "", ok |-> TRUE,
     before |-> None, source |-> None, steps |-> <<>>,
     prev |-> [sheet_paths |-> {}, value_patches |-> {}, format_patches |-> {}]]

PatcherIdle ==
    /\ patcher = [sheet_paths |-> {}, value_patches |-> {}, format_patches |-> {}]
    /\ disk = [p \in Paths |-> None]
    /\ last = NoCall
    /\ calls = 0

StylesIdle == source_styles = NoStyles /\ current_styles = NoStyles /\ applied = <<>>

Init ==
    /\ pc = "ready"
    /\ \E input \in StructureInputs \cup ContentInputs :
          /\ xml = input[1]
          /\ patches = input[2]
    /\ result = <<>>
    /\ refs = NoRef
    /\ StylesIdle
    /\ PatcherIdle

PatchWorksheet ==
    /\ pc = "ready"
    /\ result' = patch_worksheet(xml, patches)
    /\ pc' = "patched"
    /\ UNCHANGED <<xml, patches, refs, styleVars, patcherVars>>

Next == PatchWorksheet

Spec == Init /\ [][Next]_vars

----------------------------------------------------------------------------
(* Style tables and format specs apply_format_spec is run on *)

CustomCode == <<"0", ".", "0">>
QuotedCode == <<"\"", "$", "\"", "0">>
BuiltinCode == <<"0", ".", "0", "0">>

\* a styles part with a custom number format, two fonts and two style records
StylesWithNumFmts ==
    [minimal_styles_xml EXCEPT
        !["numFmts"] = Some(Section(Some(1), FALSE,
                            <<Elem("numFmt", <<Attr("numFmtId", <<"1", "6", "4">>),
                                               Attr("formatCode", xml_escape(QuotedCode))>>,
                                   <<>>)>>)),
        !["fonts"] = Some(Section(Some(2), FALSE, <<DefaultFont, DefaultFont>>)),
        !["cellXfs"] = Some(Section(Some(2), FALSE,
                            <<DefaultXf,
                              xf_to_xml(1, 0, 0, 164, None, TRUE, FALSE, FALSE, TRUE)>>))]

\* the same tables written without count attributes
WithoutCounts(styles) ==
    [tag \in SectionTags |->
        IF IsSome(styles[tag]) THEN Some([Unwrap(styles[tag]) EXCEPT !.count = None])
        ELSE None]

\* <numFmts count="0"/>
StylesWithEmptyNumFmts ==
    [minimal_styles_xml EXCEPT !["numFmts"] = Some(Section(Some(0), TRUE, <<>>))]

\* a cellXfs count that is not the number of its children
StylesWithWrongCount ==
    [minimal_styles_xml EXCEPT !["cellXfs"] = Some(Section(Some(3), FALSE, <<DefaultXf>>))]

StyleTables ==
    {minimal_styles_xml, StylesWithNumFmts, WithoutCounts(minimal_styles_xml),
     StylesWithEmptyNumFmts, StylesWithWrongCount}

NoFont == FontSpec(FALSE, FALSE, FALSE, FALSE, None, None, None)
NoSide == BorderSideSpec(None, None)
ThinSide == BorderSideSpec(Some(<<"t", "h", "i", "n">>), None)
RedThickSide == BorderSideSpec(Some(<<"t", "h", "i", "c", "k">>), Some(<<"F", "F", "F", "F", "0", "0", "0", "0">>))

FormatSpecs ==
    {FormatSpec(None, None, None, None, None),
     FormatSpec(Some([NoFont EXCEPT !.bold = TRUE]), None, None, None, None),
     FormatSpec(None, Some(FillSpec(<<"s", "o", "l", "i", "d">>, Some(<<"F", "F", "F", "F", "0", "0", "0", "0">>))), None, None, Some(CustomCode)),
     FormatSpec(None, None, Some(BorderSpec(ThinSide, NoSide, RedThickSide, NoSide)),
                Some(AlignmentSpec(Some(<<"c", "e", "n", "t", "e", "r">>), None, FALSE, 0, 0)), Some(BuiltinCode)),
     FormatSpec(Some([NoFont EXCEPT !.size = Some(14), !.name = Some(<<"A", "r", "i", "a", "l">>)]),
                Some(FillSpec(<<"s", "o", "l", "i", "d">>, Some(<<"F", "F", "F", "F", "0", "0", "0", "0">>))),
                Some(BorderSpec(NoSide, NoSide, NoSide, NoSide)),
                Some(AlignmentSpec(None, None, FALSE, 0, 0)), Some(QuotedCode))}

----------------------------------------------------------------------------
(* Specification of the style table *)

SheetIdle == xml = <<>> /\ patches = <<>> /\ result = <<>> /\ refs = NoRef

InitStyles ==
    /\ pc = "styles"
    /\ source_styles \in StyleTables
    /\ current_styles = source_styles
    /\ applied = <<>>
    /\ SheetIdle
    /\ PatcherIdle

ApplyFormatSpec(spec) ==
    /\ pc = "styles"
    /\ Len(applied) < MaxApply
    /\ LET r == apply_format_spec(current_styles, spec) IN
          /\ current_styles' = r[1]
          /\ applied' = Append(applied, [spec |-> spec, xf_index |-> r[2],
                                         before |-> current_styles, after |-> r[1]])
    /\ UNCHANGED <<pc, source_styles, sheetVars, patcherVars>>

NextStyles == \E spec \in FormatSpecs : ApplyFormatSpec(spec)

SpecStyles == InitStyles /\ [][NextStyles]_vars

----------------------------------------------------------------------------
(* Packages and calls the patcher is run on *)

Sheet1 == <<"S", "h", "e", "e", "t", "1">>
Ghost == <<"G", "h", "o", "s", "t">>
Sheet1Path == "xl/worksheets/sheet1.xml"
\* a second sheet, named Q:1, and the name Q of no sheet
ColonSheet == <<"Q", ":", "1">>
ColonSheetPath == "xl/worksheets/sheet2.xml"
ColonSheetHead == <<"Q">>

\* row 1 with the cell <<"A", "1">>
SourceSheet == Worksheet([r \in Rows |-> IF r = 1 THEN "open" ELSE "absent"], {1}, 0)

PackageParts ==
    <<OtherEntry("[Content_Types].xml", "types"), DirEntry("xl/"),
      OtherEntry("xl/workbook.xml", "workbook"),
      OtherEntry("xl/_rels/workbook.xml.rels", "rels"),
      SheetEntry(Sheet1Path, SourceSheet), SheetEntry(ColonSheetPath, SourceSheet)>>

\* a workbook with a styles part and one without
SourcePackages ==
    {File("original", PackageParts \o <<StylesEntry(StylesWithNumFmts)>>),
     File("original", PackageParts)}

\* XlsxPatcher::open: the sheet index read from the workbook part and its
\* relationships, and two empty maps
open(path) ==
    [sheet_paths |-> {<<Sheet1, Sheet1Path>>, <<ColonSheet, ColonSheetPath>>},
     value_patches |-> {}, format_patches |-> {}]

Call(op, sheet, cell, arg) == [op |-> op, sheet |-> sheet, cell |-> cell, arg |-> arg]

ValueCalls ==
    {Call("queue_value", Sheet1, <<"A", "1">>, [type |-> PyTypeName("string"), value |-> PyStr(<<"h", "i">>)]),
     Call("queue_value", Sheet1, <<"a", "1">>, [type |-> PyTypeName("number"), value |-> PyFloat(15)]),
     Call("queue_value", Sheet1, <<"B", "2">>, [type |-> PyTypeName("formula"), value |-> PyStr(<<"=", "B", "1">>)]),
     Call("queue_value", Sheet1, <<"B", "2">>, [type |-> PyTypeName("formula"), value |-> PyStr(<<"=", "=", "B", "1">>)]),
     Call("queue_value", Ghost, <<"A", "1">>, [type |-> PyTypeName("boolean"), value |-> PyBool(TRUE)]),
     Call("queue_value", Sheet1, <<"A", "1">>, [type |-> PyTypeName("blank")]),
     Call("queue_value", Sheet1, <<"A", "1">>, [type |-> PyTypeName("int"), value |-> PyInt(70)]),
     Call("queue_value", Sheet1, <<"A", "1">>, [type |-> PyTypeName("date"), value |-> PyStr(<<"h", "i">>)]),
     Call("queue_value", Sheet1, <<"A", "1">>, [value |-> PyStr(<<"h", "i">>)]),
     Call("queue_value", Sheet1, <<"A", "1">>, [type |-> PyTypeName("number"), value |-> PyStr(<<"h", "i">>)]),
     Call("queue_value", Sheet1, <<"$", "A", "$", "1">>, [type |-> PyTypeName("string"), value |-> PyStr(<<"h", "i">>)]),
     Call("queue_value", Sheet1, <<"1", "A">>, [type |-> PyTypeName("string"), value |-> PyStr(<<"h", "i">>)]),
     Call("queue_value", Sheet1, <<"A", "0">>, [type |-> PyTypeName("bool"), value |-> PyBool(FALSE)])}

FormatCalls ==
    {Call("queue_format", Sheet1, <<"A", "1">>, [bold |-> TRUE]),
     Call("queue_format", Sheet1, <<"A", "1">>, [bg_color |-> <<"#", "f", "f", "0", "0", "0", "0">>, number_format |-> CustomCode]),
     Call("queue_format", Sheet1, <<"B", "2">>, [h_align |-> <<"c", "e", "n", "t", "e", "r">>, font_size |-> 14,
                                       font_color |-> <<"0", "0", "f", "f", "0", "0">>]),
     Call("queue_format", Sheet1, <<"a", "1">>, [wrap |-> TRUE, number_format |-> BuiltinCode]),
     Call("queue_format", Sheet1, <<"$", "A", "$", "1">>, [italic |-> TRUE]),
     Call("queue_format", Ghost, <<"A", "1">>, [rotation |-> 45]),
     Call("queue_format", ColonSheet, <<"A", "1">>, [bold |-> TRUE]),
     Call("queue_format", ColonSheetHead, <<"1", ":", "A", "1">>, [italic |-> TRUE])}

ThinDict == PyDict([style |-> <<"t", "h", "i", "n">>])
ThickGreenDict == PyDict([style |-> <<"t", "h", "i", "c", "k">>, color |-> <<"0", "0", "f", "f", "0", "0">>])

BorderCalls ==
    {Call("queue_border", Sheet1, <<"A", "1">>, [left |-> ThinDict]),
     Call("queue_border", Sheet1, <<"B", "2">>, [top |-> ThickGreenDict, bottom |-> PyOther]),
     Call("queue_border", Sheet1, <<"$", "A", "$", "1">>, [right |-> ThinDict]),
     Call("queue_border", Ghost, <<"A", "1">>, [left |-> ThickGreenDict, right |-> ThinDict])}

QueueCalls == ValueCalls \cup FormatCalls \cup BorderCalls

\* the call on the patcher: [ok, self]
Apply(self, call) ==
    CASE call.op = "queue_value" -> queue_value(self, call.sheet, call.cell, call.arg)
      [] call.op = "queue_format" -> queue_format(self, call.sheet, call.cell, call.arg)
      [] call.op = "queue_border" -> queue_border(self, call.sheet, call.cell, call.arg)

----------------------------------------------------------------------------
(* Specification of the patch queue *)

InitQueue ==
    /\ pc = "queue"
    /\ patcher = open(file_path)
    /\ disk = [p \in Paths |-> IF p = file_path
                                THEN Some(File("original", PackageParts)) ELSE None]
    /\ last = NoCall
    /\ calls = 0
    /\ SheetIdle
    /\ StylesIdle

\* the patcher and the record of the call after a queue call returned r
Returned(op, sheet, cell, arg, r) ==
    /\ patcher' = r.self
    /\ last' = [NoCall EXCEPT !.op = op, !.sheet = sheet, !.cell = cell, !.arg = arg,
                              !.ok = r.ok,
                              !.before = get(patcher.format_patches, <<sheet, cell>>),
                              !.prev = patcher]
    /\ calls' = calls + 1
    /\ UNCHANGED <<pc, disk, sheetVars, styleVars>>

QueueValue(sheet, cell, payload) ==
    /\ pc = "queue"
    /\ calls < MaxCalls
    /\ Returned("queue_value", sheet, cell, payload,
                queue_value(patcher, sheet, cell, payload))

QueueFormat(sheet, cell, format_dict) ==
    /\ pc = "queue"
    /\ calls < MaxCalls
    /\ Returned("queue_format", sheet, cell, format_dict,
                queue_format(patcher, sheet, cell, format_dict))

QueueBorder(sheet, cell, border_dict) ==
    /\ pc = "queue"
    /\ calls < MaxCalls
    /\ Returned("queue_border", sheet, cell, border_dict,
                queue_border(patcher, sheet, cell, border_dict))

NextQueue ==
    \/ \E call \in ValueCalls : QueueValue(call.sheet, call.cell, call.arg)
    \/ \E call \in FormatCalls : QueueFormat(call.sheet, call.cell, call.arg)
    \/ \E call \in BorderCalls : QueueBorder(call.sheet, call.cell, call.arg)

SpecQueue == InitQueue /\ [][NextQueue]_vars

----------------------------------------------------------------------------
(* Specification of save *)

\* the calls queued before a save
SessionCalls ==
    {c \in QueueCalls :
        \/ c.op = "queue_value" /\ c.arg \in {[type |-> PyTypeName("string"), value |-> PyStr(<<"h", "i">>)],
                                              [type |-> PyTypeName("number"), value |-> PyFloat(15)],
                                              [type |-> PyTypeName("formula"), value |-> PyStr(<<"=", "B", "1">>)],
                                              [type |-> PyTypeName("boolean"), value |-> PyBool(TRUE)]}
                                 /\ c.cell \in {<<"A", "1">>, <<"a", "1">>, <<"B", "2">>}
        \/ c.op = "queue_format" /\ c.cell \in {<<"A", "1">>, <<"B", "2">>, <<"$", "A", "$", "1">>} /\ c.sheet = Sheet1
        \/ c.op = "queue_format" /\ c.sheet \in {ColonSheet, ColonSheetHead, Ghost}
        \/ c.op = "queue_border" /\ c.cell = <<"A", "1">> /\ c.sheet = Sheet1}

RECURSIVE Replay(_, _)
Replay(self, session) ==
    IF session = <<>> THEN self
    ELSE Replay(Apply(self, Head(session)).self, Tail(session))

Sessions == UNION {[1..n -> SessionCalls] : n \in 0..MaxQueued}

InitSave ==
    /\ pc = "save"
    /\ \E session \in Sessions : patcher = Replay(open(file_path), session)
    /\ \E package \in SourcePackages :
          disk = [p \in Paths |-> IF p = file_path THEN Some(package) ELSE None]
    /\ last = NoCall
    /\ calls = 0
    /\ SheetIdle
    /\ StylesIdle

Save(path) ==
    /\ pc = "save"
    /\ calls < MaxSaves
    /\ \E outcome \in save(patcher, disk, path) :
          /\ disk' = outcome.files
          /\ last' = [NoCall EXCEPT !.op = "save", !.path = path, !.ok = outcome.ok,
                                    !.source = disk[file_path], !.prev = patcher]
    /\ patcher' = self_borrowed(patcher)
    /\ calls' = calls + 1
    /\ UNCHANGED <<pc, sheetVars, styleVars>>

SaveInPlace ==
    /\ pc = "save"
    /\ calls < MaxSaves
    /\ \E outcome \in save_in_place(patcher, disk) :
          /\ disk' = outcome.files
          /\ last' = [NoCall EXCEPT !.op = "save_in_place", !.path = file_path,
                                    !.ok = outcome.ok, !.source = disk[file_path],
                                    !.prev = patcher, !.steps = outcome.steps]
    /\ patcher' = self_borrowed(patcher)
    /\ calls' = calls + 1
    /\ UNCHANGED <<pc, sheetVars, styleVars>>

NextSave == (\E path \in {OtherPath, file_path, UnwritablePath} : Save(path)) \/ SaveInPlace

SpecSave == InitSave /\ [][NextSave]_vars

----------------------------------------------------------------------------
(* Specification of the cell reference functions *)

MaxRefCol == 28
MaxRefRow == 11
MaxRefLen == 3

\* the characters references are built from: letters of both cases, digits
\* and a character that is neither
RefChars == {"A", "Z", "b", "0", "1", "$"}

RefTexts == UNION {[1..n -> RefChars] : n \in 1..MaxRefLen}

InitRefs ==
    /\ pc = "refs"
    /\ xml = <<>>
    /\ patches = <<>>
    /\ result = <<>>
    /\ refs = NoRef
    /\ StylesIdle
    /\ PatcherIdle

ColRowToA1(col, row) ==
    /\ pc = "refs"
    /\ refs.op = "none"
    /\ refs' = [NoRef EXCEPT !.op = "col_row_to_a1", !.col = col, !.row = row,
                             !.text = col_row_to_a1(col, row)]
    /\ UNCHANGED <<pc, xml, patches, result, styleVars, patcherVars>>

A1ToRowCol(a1) ==
    /\ pc = "refs"
    /\ refs.op = "none"
    /\ refs' = [NoRef EXCEPT !.op = "a1_to_row_col", !.text = a1,
                             !.accepted = a1_to_row_col(a1)]
    /\ UNCHANGED <<pc, xml, patches, result, styleVars, patcherVars>>

\* parse_cell_ref of the text the last call produced or was given
ParseCellRef ==
    /\ pc = "refs"
    /\ refs.op \in {"col_row_to_a1", "a1_to_row_col"}
    /\ refs' = [refs EXCEPT !.op = "parse_cell_ref", !.from = refs.op,
                            !.parsed = parse_cell_ref(refs.text)]
    /\ UNCHANGED <<pc, xml, patches, result, styleVars, patcherVars>>

NextRefs ==
    \/ \E col \in 1..MaxRefCol, row \in 1..MaxRefRow : ColRowToA1(col, row)
    \/ \E a1 \in RefTexts : A1ToRowCol(a1)
    \/ ParseCellRef

SpecRefs == InitRefs /\ [][NextRefs]_vars

----------------------------------------------------------------------------
(* Reading a document back: rows, cells and elements *)

Min(S) == CHOOSE x \in S : \A y \in S : x <= y

IsOpen(e, tag) == e.tag = tag /\ e.kind \in {"Start", "Empty"}
Opens(doc, tag) == {i \in DOMAIN doc : IsOpen(doc[i], tag)}

\* the index of the event that closes the element opened at i
CloseOf(doc, i) ==
    IF doc[i].kind = "Empty" THEN i
    ELSE LET J == {j \in (i + 1)..Len(doc) : doc[j].kind = "End" /\ doc[j].tag = doc[i].tag}
         IN IF J = {} THEN Len(doc) ELSE Min(J)

Element(doc, i) == SubSeq(doc, i, CloseOf(doc, i))

StrictlyAscending(s) == \A i, j \in DOMAIN s : i < j => s[i] < s[j]

\* the row numbers of the <row> elements, in document order
RowNumbers(doc) ==
    LET at == Ascending(Opens(doc, "row")) IN [k \in DOMAIN at |-> row_number(doc[at[k]])]

\* the columns of the <c> elements of the row opened at i, in document order
CellColumns(doc, i) ==
    LET at == Ascending({c \in Opens(doc, "c") : i < c /\ c <= CloseOf(doc, i)})
    IN [k \in DOMAIN at |-> parse_cell_ref(cell_ref_of(doc[at[k]]))[2]]

\* the <c> elements at a position <<row, col>>
CellsAt(doc, pos) == {i \in Opens(doc, "c") : parse_cell_ref(cell_ref_of(doc[i])) = pos}

PatchPos(p) == <<p.row, p.col>>
PatchedPositions == {PatchPos(patches[i]) : i \in DOMAIN patches}
PatchedRows == {patches[i].row : i \in DOMAIN patches}
IsStyleOnly(p) == p.value = None /\ IsSome(p.style_index)
HasValue(p, kind) == IsSome(p.value) /\ Unwrap(p.value).kind = kind

\* <c ..><tag>text</tag></c>
IsValueCell(el, tag) ==
    /\ Len(el) = 5
    /\ el[1].kind = "Start"
    /\ el[2] = StartEv(tag, <<>>)
    /\ el[3].kind = "Text"
    /\ el[4] = EndEv(tag)
    /\ el[5] = EndEv("c")

\* what follows the element closed at j is the next cell or the end of the row
EndsCleanly(doc, j) == j < Len(doc) /\ (IsOpen(doc[j + 1], "c") \/ doc[j + 1] = EndEv("row"))

----------------------------------------------------------------------------
(* Row order *)

\* C1: with a non-empty patch slice on a worksheet whose rows ascend, the rows of
\* the output are in strictly ascending order and are exactly the source rows and
\* the patched rows, so that each inserted row stands between its neighbours.
C1_RowsAscending ==
    (pc = "patched" /\ patches # <<>>) =>
        /\ StrictlyAscending(RowNumbers(result))
        /\ Range(RowNumbers(result)) = Range(RowNumbers(xml)) \cup PatchedRows

C1_Witness ==
    /\ pc = "patched"
    /\ RowNumbers(xml) = <<1, 3>>
    /\ PatchedRows = {2}
    /\ RowNumbers(result) = <<1, 2, 3>>

C1_WitnessAppended ==
    /\ pc = "patched"
    /\ RowNumbers(xml) = <<1>>
    /\ PatchedRows = {2, 3}
    /\ RowNumbers(result) = <<1, 2, 3>>

----------------------------------------------------------------------------
(* Column order *)

\* C2: the cells of every row of the output are in strictly ascending column
\* order, also where a patch adds a column smaller than one the row holds.
C2_CellsAscending ==
    pc = "patched" =>
        \A i \in Opens(result, "row") : StrictlyAscending(CellColumns(result, i))

----------------------------------------------------------------------------
(* Formula patches *)

\* C3: a cell patched with a Formula is written as <c><f>expression</f></c> and
\* nothing else, whatever the cell held: no <v>, none of the original children.
C3_FormulaOnly ==
    pc = "patched" =>
        \A i \in DOMAIN patches :
            (HasValue(patches[i], "Formula") /\ Opens(xml, "sheetData") # {}) =>
                /\ CellsAt(result, PatchPos(patches[i])) # {}
                /\ \A c \in CellsAt(result, PatchPos(patches[i])) :
                       LET el == Element(result, c) IN
                       /\ IsValueCell(el, "f")
                       /\ xml_unescape(el[3].text) = Unwrap(patches[i].value).str
                       /\ EndsCleanly(result, CloseOf(result, c))

\* a formula replaces a cell that held a formula and its cached value
C3_Witness ==
    /\ pc = "patched"
    /\ \E i \in DOMAIN patches :
          /\ HasValue(patches[i], "Formula")
          /\ \E c \in CellsAt(xml, PatchPos(patches[i])) :
                /\ StartEv("v", <<>>) \in Range(Element(xml, c))
                /\ StartEv("f", <<>>) \in Range(Element(xml, c))
          /\ \E c \in CellsAt(result, PatchPos(patches[i])) :
                IsValueCell(Element(result, c), "f")

----------------------------------------------------------------------------
(* Style-only patches *)

OtherAttrs(e) == {a \in Range(e.attrs) : a.key \notin {"r", "s"}}

\* C4: a style-only patch on an existing cell changes only the s attribute: the
\* other attributes, r and the children are as in the source, for cells with
\* children and for self-closed cells.
C4_StyleOnlyKeepsCell ==
    pc = "patched" =>
        \A i \in DOMAIN patches :
            IsStyleOnly(patches[i]) =>
                \A c \in CellsAt(xml, PatchPos(patches[i])) :
                    \E d \in CellsAt(result, PatchPos(patches[i])) :
                        LET o == Element(xml, c)
                            n == Element(result, d)
                        IN /\ Tail(n) = Tail(o)
                           /\ n[1].kind = o[1].kind
                           /\ attr_value(n[1], "r") = attr_value(o[1], "r")
                           /\ attr_value(n[1], "s") =
                                  Some(to_string(Unwrap(patches[i].style_index)))
                           /\ OtherAttrs(n[1]) = OtherAttrs(o[1])

----------------------------------------------------------------------------
(* Value patches *)

\* the decimal text of an integer
IsIntegerText(text, i) ==
    LET digits == IF i < 0 THEN Tail(text) ELSE text IN
    /\ i < 0 => (text # <<>> /\ Head(text) = "-")
    /\ digits # <<>>
    /\ \A k \in DOMAIN digits : is_ascii_digit(digits[k])
    /\ DigitsValue(digits) = (IF i < 0 THEN -i ELSE i)

\* C5: a value patch is written with the type marker and text of its kind:
\* Boolean as t="b" and <v>1</v> or <v>0</v>, Number without t and, when
\* integral, as integer text, String as t="str" with its text in <v>, Blank as a
\* self-closed cell without t.
C5_ValueKinds ==
    pc = "patched" =>
        \A i \in DOMAIN patches :
            (IsSome(patches[i].value) /\ Opens(xml, "sheetData") # {}) =>
                /\ CellsAt(result, PatchPos(patches[i])) # {}
                /\ \A c \in CellsAt(result, PatchPos(patches[i])) :
                       LET el == Element(result, c)
                           v == Unwrap(patches[i].value)
                           t == attr_value(el[1], "t")
                       IN CASE v.kind = "Boolean" ->
                                   /\ IsValueCell(el, "v")
                                   /\ t = Some(<<"b">>)
                                   /\ el[3].text = (IF v.bool THEN <<"1">> ELSE <<"0">>)
                            [] v.kind = "Number" ->
                                   /\ IsValueCell(el, "v")
                                   /\ t = None
                                   /\ v.num % 10 = 0 => IsIntegerText(el[3].text, v.num \div 10)
                            [] v.kind = "String" ->
                                   /\ IsValueCell(el, "v")
                                   /\ t = Some(<<"s", "t", "r">>)
                                   /\ xml_unescape(el[3].text) = v.str
                            [] v.kind = "Blank" ->
                                   /\ el = <<EmptyEv("c", el[1].attrs)>>
                                   /\ t = None
                            [] OTHER -> TRUE

\* Number(99.0) replaces a shared-string cell and is written as <v>99</v>
C5_Witness ==
    /\ pc = "patched"
    /\ \E i \in DOMAIN patches :
          /\ patches[i].value = Some(Number(990))
          /\ \E c \in CellsAt(xml, PatchPos(patches[i])) :
                attr_value(xml[c], "t") = Some(<<"s">>)
          /\ \E c \in CellsAt(result, PatchPos(patches[i])) :
                /\ attr_value(result[c], "t") = None
                /\ Element(result, c)[3] = TextEv(<<"9", "9">>)

----------------------------------------------------------------------------
(* What a patch leaves alone *)

SheetDataOpen(doc) == Min(Opens(doc, "sheetData"))
BeforeData(doc) == SubSeq(doc, 1, SheetDataOpen(doc) - 1)
AfterData(doc) == SubSeq(doc, CloseOf(doc, SheetDataOpen(doc)) + 1, Len(doc))

\* the <c> elements at positions without a patch, in document order
UnpatchedCells(doc) ==
    LET at == Ascending({c \in Opens(doc, "c") :
                            parse_cell_ref(cell_ref_of(doc[c])) \notin PatchedPositions})
    IN [k \in DOMAIN at |-> Element(doc, at[k])]

\* C6: the cells without a patch and the elements outside sheetData are in the
\* output as they are in the source, in the same order; with no patch the output
\* is the source.
C6_RestUnchanged ==
    pc = "patched" =>
        /\ patches = <<>> => result = xml
        /\ Opens(result, "sheetData") # {}
        /\ BeforeData(result) = BeforeData(xml)
        /\ AfterData(result) = AfterData(xml)
        /\ UnpatchedCells(result) = UnpatchedCells(xml)

\* one cell of a row is replaced and another one is not
C6_Witness ==
    /\ pc = "patched"
    /\ \E i \in DOMAIN patches :
          /\ IsSome(patches[i].value)
          /\ CellsAt(xml, PatchPos(patches[i])) # {}
    /\ Len(UnpatchedCells(xml)) > 0
    /\ result # xml
    /\ UnpatchedCells(result) = UnpatchedCells(xml)

----------------------------------------------------------------------------
(* Style table claims *)

Items(styles, tag) == IF IsSome(styles[tag]) THEN Unwrap(styles[tag]).items ELSE <<>>

\* every count attribute a table carries is the number of its child elements
CountsMatch(styles) ==
    \A tag \in SectionTags :
        IsSome(styles[tag]) /\ IsSome(Unwrap(styles[tag]).count) =>
            Unwrap(Unwrap(styles[tag]).count) = Len(Items(styles, tag))

IsPrefix(a, b) == Len(a) <= Len(b) /\ SubSeq(b, 1, Len(a)) = a

\* C8: resolving the same FormatSpec twice in succession returns two different
\* style indices, for every FormatSpec and every style table.
C8_SameSpecTwiceDistinct ==
    pc = "styles" =>
        \A i \in 1..(Len(applied) - 1) :
            applied[i].spec = applied[i + 1].spec =>
                applied[i].xf_index # applied[i + 1].xf_index

\* C9: after any sequence of apply_format_spec calls on a style table whose
\* count attributes match their child counts, every entry that existed before
\* is still there, unchanged and at the same index, and each table's count
\* attribute equals its number of child elements.
C9_AppendOnly ==
    pc = "styles" /\ CountsMatch(source_styles) =>
        /\ \A tag \in SectionTags :
              /\ IsSome(source_styles[tag]) => IsSome(current_styles[tag])
              /\ IsPrefix(Items(source_styles, tag), Items(current_styles, tag))
        /\ CountsMatch(current_styles)

\* two calls on a table with matching counts that grew every table, numFmts
\* created by the first of them
C9_Witness ==
    /\ pc = "styles"
    /\ CountsMatch(source_styles)
    /\ Len(applied) >= 2
    /\ source_styles["numFmts"] = None
    /\ \A tag \in SectionTags :
          /\ IsSome(current_styles[tag])
          /\ Len(Items(current_styles, tag)) > Len(Items(source_styles, tag))
          /\ Unwrap(current_styles[tag]).count = Some(Len(Items(current_styles, tag)))

----------------------------------------------------------------------------
(* Save with an empty queue *)

QueueIsEmpty == patcher.value_patches = {} /\ patcher.format_patches = {}

\* C7: when both maps are empty, save(path) writes a destination whose content
\* is identical to the source file, no archive entry parsed or rewritten.
C7_EmptyQueueSaveCopies ==
    pc = "save" /\ last.op = "save" /\ last.ok /\ QueueIsEmpty =>
        disk[last.path] = last.source

----------------------------------------------------------------------------
(* The patch queue *)

OnePerKey(map) == \A e1 \in map : \A e2 \in map : e1[1] = e2[1] => e1 = e2

LastKey == <<last.sheet, last.cell>>

\* C10: every (sheet, cell) key holds at most one value patch and at most one
\* format spec; a successful queue_value (queue_format) leaves the key with
\* exactly the patch (spec) built from that call, and so queue_format discards
\* whatever queue_format or queue_border queued for the key before, a border
\* included.
C10_OnePatchPerKey ==
    pc = "queue" =>
        /\ OnePerKey(patcher.value_patches)
        /\ OnePerKey(patcher.format_patches)
        /\ last.op = "queue_value" /\ last.ok =>
              LET rc == Unwrap(a1_to_row_col(last.cell)) IN
              {e \in patcher.value_patches : e[1] = LastKey}
                  = {<<LastKey, CellPatch(rc[1] + 1, rc[2] + 1, payload_value(last.arg), None)>>}
        /\ last.op = "queue_format" /\ last.ok =>
              /\ {e \in patcher.format_patches : e[1] = LastKey}
                    = {<<LastKey, dict_to_format_spec(last.arg)>>}
              /\ Unwrap(get(patcher.format_patches, LastKey)).border = None

\* queue_format on a key that held a spec with a border
C10_Witness ==
    /\ pc = "queue"
    /\ last.op = "queue_format"
    /\ last.ok
    /\ IsSome(last.before)
    /\ IsSome(Unwrap(last.before).border)
    /\ Unwrap(last.before).font = None
    /\ IsSome(Unwrap(get(patcher.format_patches, LastKey)).font)
    /\ Unwrap(get(patcher.format_patches, LastKey)).border = None

OtherEntries(map, key) == {e \in map : e[1] # key}

\* C11: queue_border(sheet, cell, d) sets only the border of the key's format
\* spec, starting from an empty spec when the key has none: the font, fill,
\* alignment and number format of the key, the specs of all other keys and all
\* value patches are as before the call.
C11_BorderOnly ==
    pc = "queue" /\ last.op = "queue_border" /\ last.ok =>
        LET before == unwrap_or(last.before, FormatSpec_default)
            after == get(patcher.format_patches, LastKey)
        IN /\ IsSome(after)
           /\ Unwrap(after).border = Some(dict_to_border_spec(last.arg))
           /\ Unwrap(after).font = before.font
           /\ Unwrap(after).fill = before.fill
           /\ Unwrap(after).alignment = before.alignment
           /\ Unwrap(after).number_format = before.number_format
           /\ last.before = None => Unwrap(after).font = None /\ Unwrap(after).fill = None
           /\ OtherEntries(patcher.format_patches, LastKey)
                 = OtherEntries(last.prev.format_patches, LastKey)
           /\ patcher.value_patches = last.prev.value_patches
           /\ patcher.sheet_paths = last.prev.sheet_paths

\* queue_border on a key whose spec had a fill and a number format and no
\* border
C11_Witness ==
    /\ pc = "queue"
    /\ last.op = "queue_border"
    /\ last.ok
    /\ IsSome(last.before)
    /\ IsSome(Unwrap(last.before).fill)
    /\ IsSome(Unwrap(last.before).number_format)
    /\ Unwrap(last.before).border = None
    /\ IsSome(Unwrap(get(patcher.format_patches, LastKey)).border)

\* the type tags queue_value knows
CellTypes == {"blank", "string", "str", "number", "float", "int", "integer",
              "boolean", "bool", "formula"}

HasKnownType(payload) ==
    "type" \in DOMAIN payload /\ payload["type"].ty = "str" /\ payload["type"].name \in CellTypes

\* C12: a queue_value, queue_format or queue_border call whose cell is not a
\* valid A1 reference, and a queue_value call whose type tag is missing or
\* unknown, returns an error and leaves both patch maps as they were.
C12_InvalidCallFails ==
    /\ pc = "queue"
    /\ last.op \in {"queue_value", "queue_format", "queue_border"}
    /\ \/ a1_to_row_col(last.cell) = None
       \/ last.op = "queue_value" /\ ~HasKnownType(last.arg)
    => /\ ~last.ok
       /\ patcher.value_patches = last.prev.value_patches
       /\ patcher.format_patches = last.prev.format_patches

----------------------------------------------------------------------------
(* Save *)

Saved == pc = "save" /\ last.op \in {"save", "save_in_place"}

\* C13: save and save_in_place, whether they return Ok or an error, leave the
\* value patches, the format patches and the sheet index of the patcher as
\* they were, so the instance can be saved again.
C13_SaveKeepsQueue ==
    Saved =>
        /\ patcher.value_patches = last.prev.value_patches
        /\ patcher.format_patches = last.prev.format_patches
        /\ patcher.sheet_paths = last.prev.sheet_paths

\* a second save of an instance holding value and format patches
C13_Witness ==
    /\ Saved
    /\ calls = 2
    /\ patcher.value_patches # {}
    /\ patcher.format_patches # {}
    /\ last.ok
    /\ disk[OtherPath] = None

\* C14: in save_in_place, after the rename of the temporary file over the
\* original failed and remove-original-then-rename failed too, the temporary
\* file is copied to the original and removed; an error of the replacement is
\* returned only after these three steps have failed.
C14_ThreeFallbacks ==
    Saved /\ last.op = "save_in_place" /\ ~last.ok /\ last.steps # <<>> =>
        /\ SubSeq(last.steps, 1, 3) = <<"rename", "remove_file", "rename">>
        /\ Len(last.steps) >= 4
        /\ last.steps[4] = "copy"

\* a file that is a whole archive
IsComplete(file) == IsSome(file) /\ Unwrap(file).container # "broken"

\* C15: after save_in_place returned, with Ok or with any error, the original
\* path holds the complete file it held before or a complete patched file; it
\* is never missing, empty or partly written.
C15_OriginalIntact ==
    Saved /\ last.op = "save_in_place" /\ IsComplete(last.source) =>
        /\ IsComplete(disk[file_path])
        /\ ~last.ok => disk[file_path] = last.source

\* the archive written by the last call, and the archive it was read from
Output == Unwrap(disk[last.path]).entries
Source == Unwrap(last.source).entries

\* what an entry holds
Content(entry) == <<entry.sheet, entry.styles, entry.other>>

QueuedKeys == keys(patcher.value_patches) \cup keys(patcher.format_patches)

\* the worksheet parts of the queued keys whose sheet is in the index
PatchedSheetPaths ==
    {Unwrap(get(patcher.sheet_paths, key[1])) :
        key \in {k \in QueuedKeys : contains_key(patcher.sheet_paths, k[1])}}

SavedOk == Saved /\ last.ok /\ ~QueueIsEmpty

----------------------------------------------------------------------------
(* The cell patches built at save *)

\* the style index apply_format_spec returns for the spec of the key when the
\* format patches are resolved in the given order
RECURSIVE resolved_index(_, _, _)
resolved_index(styles, order, key) ==
    IF Head(order) = key
    THEN apply_format_spec(styles, Unwrap(get(patcher.format_patches, key)))[2]
    ELSE resolved_index(
             apply_format_spec(styles, Unwrap(get(patcher.format_patches, Head(order))))[1],
             Tail(order), key)

\* the styles part Phase 1 starts from
StylesRead(zip) ==
    IF IsSome(by_name(zip, "xl/styles.xml")) THEN Unwrap(by_name(zip, "xl/styles.xml")).styles
    ELSE minimal_styles_xml

\* the CellPatch a queued key is to yield
ExpectedPatch(key, format_order) ==
    LET own == IF contains_key(patcher.format_patches, key)
               THEN Some(resolved_index(StylesRead(Unwrap(last.source)), format_order, key))
               ELSE None
        rc == Unwrap(a1_to_row_col(key[2]))
    IN IF contains_key(patcher.value_patches, key)
       THEN [Unwrap(get(patcher.value_patches, key)) EXCEPT !.style_index = own]
       ELSE CellPatch(rc[1] + 1, rc[2] + 1, None, own)

\* sheet_cell_patches of do_save with the maps iterated in the given orders
CellPatchesBuilt(value_order, format_order) ==
    build_cell_patches(patcher, value_order, format_order,
                       resolve_styles(patcher, Unwrap(last.source), format_order).style_assignments)

IndexedKeys == {k \in QueuedKeys : contains_key(patcher.sheet_paths, k[1])}

PatchesOf(cells, path) == unwrap_or(get(Unwrap(cells), path), <<>>)

YieldsExpected(cells, format_order) ==
    /\ IsSome(cells)
    /\ \A key \in IndexedKeys :
          \E i \in DOMAIN PatchesOf(cells, Unwrap(get(patcher.sheet_paths, key[1]))) :
              PatchesOf(cells, Unwrap(get(patcher.sheet_paths, key[1])))[i]
                  = ExpectedPatch(key, format_order)
    /\ \A path \in keys(Unwrap(cells)) :
          Len(PatchesOf(cells, path))
              = Cardinality({k \in IndexedKeys : get(patcher.sheet_paths, k[1]) = Some(path)})

\* C17: at a save that succeeds, every queued key whose sheet is in the index
\* yields one CellPatch: its value patch with the style index resolved from the
\* format spec queued under the same key (none without one), or a style-only
\* patch at its row and column with the index resolved from its own spec; no
\* patch carries an index resolved from the spec of another key.
C17_PatchPerKey ==
    SavedOk =>
        \A value_order \in Orders(keys(patcher.value_patches)) :
            \A format_order \in Orders(keys(patcher.format_patches)) :
                YieldsExpected(CellPatchesBuilt(value_order, format_order), format_order)

----------------------------------------------------------------------------
(* Style indices written at save *)

HasStylesPart(entries) == \E i \in DOMAIN entries : entries[i].name = "xl/styles.xml"

\* the style records of the styles part of an archive
StyleRecords(entries) ==
    IF HasStylesPart(entries)
    THEN Items(entries[CHOOSE i \in DOMAIN entries : entries[i].name = "xl/styles.xml"].styles,
               "cellXfs")
    ELSE <<>>

\* the s attributes of the cells of a worksheet document
StyleIndexes(doc) ==
    {DigitsValue(Unwrap(attr_value(doc[i], "s"))) :
        i \in {c \in Opens(doc, "c") : IsSome(attr_value(doc[c], "s"))}}

\* C18: after a successful save with at least one format or border patch,
\* every style index in an s attribute of a cell of the output identifies a
\* style record of the xl/styles.xml entry of the output, also when the source
\* package has no xl/styles.xml.
C18_StyleIndexesResolve ==
    SavedOk /\ patcher.format_patches # {} =>
        \A i \in DOMAIN Output :
            \A n \in StyleIndexes(Output[i].sheet) : n < Len(StyleRecords(Output))

----------------------------------------------------------------------------
(* Number formats *)

Last(s) == s[Len(s)]
Max(S) == CHOOSE x \in S : \A y \in S : y <= x

\* the ids of the numFmt entries of a styles part
NumFmtIds(styles) == {num_fmt_id_of(e) : e \in Range(Items(styles, "numFmts"))}

\* the positions of the numFmt entries with the format code
WithCode(styles, code) ==
    {i \in DOMAIN Items(styles, "numFmts") : num_fmt_code_of(Items(styles, "numFmts")[i]) = code}

\* the numFmtId of the style record a call appended
NumFmtIdUsed(call) == DigitsValue(Unwrap(elem_attr(Last(Items(call.after, "cellXfs")), "numFmtId")))

\* a call that appended a style record and resolved a number format
ResolvedNumFmt(call) ==
    /\ IsSome(call.spec.number_format)
    /\ Len(Items(call.after, "cellXfs")) > Len(Items(call.before, "cellXfs"))

NumFmtsUnchanged(call) == call.after["numFmts"] = call.before["numFmts"]

\* one entry appended, with the id and the code, to a table created with
\* count 1 when there was none
NumFmtAppended(call, id, code) ==
    /\ IsSome(call.after["numFmts"])
    /\ Len(Items(call.after, "numFmts")) = Len(Items(call.before, "numFmts")) + 1
    /\ IsPrefix(Items(call.before, "numFmts"), Items(call.after, "numFmts"))
    /\ num_fmt_id_of(Last(Items(call.after, "numFmts"))) = id
    /\ num_fmt_code_of(Last(Items(call.after, "numFmts"))) = code
    /\ call.before["numFmts"] = None => Unwrap(call.after["numFmts"]).count = Some(1)

NumFmtResolvedInOrder(call, id, code) ==
    IF IsSome(builtin_num_fmt_id(code))
    THEN id = Unwrap(builtin_num_fmt_id(code)) /\ NumFmtsUnchanged(call)
    ELSE IF WithCode(call.before, code) # {}
    THEN /\ id = num_fmt_id_of(Items(call.before, "numFmts")[Min(WithCode(call.before, code))])
         /\ NumFmtsUnchanged(call)
    ELSE /\ NumFmtAppended(call, id, code)
         /\ id = Max(NumFmtIds(call.before) \cup {163}) + 1
         /\ id >= 164
         /\ id \notin NumFmtIds(call.before)

\* C19: a format code is resolved in this order: a builtin code gives its
\* builtin id and leaves the styles part unchanged; a code equal to the
\* formatCode of an existing numFmt entry gives the id of that entry and leaves
\* the part unchanged; otherwise one numFmt entry is appended (to a numFmts
\* table created with count 1 if there is none) with the id
\* max(existing ids, 163) + 1, which is at least 164 and not in the table.
C19_NumFmtResolution ==
    pc = "styles" =>
        \A i \in DOMAIN applied :
            ResolvedNumFmt(applied[i]) =>
                NumFmtResolvedInOrder(applied[i], NumFmtIdUsed(applied[i]),
                                      Unwrap(applied[i].spec.number_format))

----------------------------------------------------------------------------
(* The style record *)

\* the style record a call appended
RecordOf(call) == Last(Items(call.after, "cellXfs"))

AppendedRecord(call) ==
    Len(Items(call.after, "cellXfs")) > Len(Items(call.before, "cellXfs"))

IdAttr(e, key) == DigitsValue(Unwrap(elem_attr(e, key)))

HasFlag(e, key) == elem_attr(e, key) = Some(<<"1">>)

\* the record refers to the component the call appended to the table, or to
\* component 0 when the spec has none
RefersToAppended(call, present, tag, key) ==
    IF present
    THEN /\ Len(Items(call.after, tag)) = Len(Items(call.before, tag)) + 1
         /\ IdAttr(RecordOf(call), key) = Len(Items(call.after, tag)) - 1
    ELSE IdAttr(RecordOf(call), key) = 0

AlignmentSet(spec) ==
    /\ IsSome(spec.alignment)
    /\ \/ IsSome(Unwrap(spec.alignment).horizontal)
       \/ IsSome(Unwrap(spec.alignment).vertical)
       \/ Unwrap(spec.alignment).wrap_text
       \/ Unwrap(spec.alignment).indent > 0
       \/ Unwrap(spec.alignment).text_rotation > 0

HasAlignmentChild(e) == \E i \in DOMAIN e.children : e.children[i].tag = "alignment"

RecordMatchesSpec(call) ==
    /\ RefersToAppended(call, IsSome(call.spec.font), "fonts", "fontId")
    /\ RefersToAppended(call, IsSome(call.spec.fill), "fills", "fillId")
    /\ RefersToAppended(call, IsSome(call.spec.border), "borders", "borderId")
    /\ HasFlag(RecordOf(call), "applyFont") <=> IsSome(call.spec.font)
    /\ HasFlag(RecordOf(call), "applyFill") <=> IsSome(call.spec.fill)
    /\ HasFlag(RecordOf(call), "applyBorder") <=> IsSome(call.spec.border)
    /\ HasFlag(RecordOf(call), "applyNumberFormat") <=> IsSome(call.spec.number_format)
    /\ HasFlag(RecordOf(call), "applyAlignment") <=> AlignmentSet(call.spec)
    /\ HasAlignmentChild(RecordOf(call)) <=> AlignmentSet(call.spec)

\* C20: the style record apply_format_spec appends refers to the font, fill
\* and border the same call appended, for each of them the spec has, and to 0
\* for each it has not; it carries applyFont, applyFill, applyBorder and
\* applyNumberFormat exactly for the components of the spec, and applyAlignment
\* with an alignment child exactly when an alignment field is set.
C20_RecordMatchesSpec ==
    pc = "styles" =>
        \A i \in DOMAIN applied : AppendedRecord(applied[i]) => RecordMatchesSpec(applied[i])

----------------------------------------------------------------------------
(* The index of an appended element *)

\* the index returned for a component the call appended to a table is the
\* number of children the table had
IndexIsPriorCount(call, present, tag, key) ==
    present /\ Len(Items(call.after, tag)) > Len(Items(call.before, tag)) =>
        IdAttr(RecordOf(call), key) = Len(Items(call.before, tag))

\* C21: the index returned when a font, fill, border or style record is
\* appended is the number of children the table had before the call, which is
\* the zero-based position of the appended element, for every well-formed
\* table, with or without a count attribute.
C21_IndexIsPosition ==
    pc = "styles" =>
        \A i \in DOMAIN applied :
            AppendedRecord(applied[i]) =>
                /\ applied[i].xf_index = Len(Items(applied[i].before, "cellXfs"))
                /\ Items(applied[i].after, "cellXfs")[applied[i].xf_index + 1]
                      = RecordOf(applied[i])
                /\ IndexIsPriorCount(applied[i], IsSome(applied[i].spec.font), "fonts", "fontId")
                /\ IndexIsPriorCount(applied[i], IsSome(applied[i].spec.fill), "fills", "fillId")
                /\ IndexIsPriorCount(applied[i], IsSome(applied[i].spec.border), "borders", "borderId")

----------------------------------------------------------------------------
(* The style of a patched cell *)

\* the style index of a cell: the number in its s attribute, 0 without one
StyleIndexOf(e) ==
    IF IsSome(attr_value(e, "s")) /\ IsSome(parse_u32(Unwrap(attr_value(e, "s"))))
    THEN Unwrap(parse_u32(Unwrap(attr_value(e, "s")))) ELSE 0

ValuePatches == {i \in DOMAIN patches : IsSome(patches[i].value)}

\* the s attribute a value patch is to leave on its cell: the one of the cell
\* it replaces, or the patch's index
ExpectedStyleAttr(p) ==
    IF IsSome(p.style_index) THEN Some(to_string(Unwrap(p.style_index)))
    ELSE IF CellsAt(xml, PatchPos(p)) = {} THEN None
    ELSE attr_value(xml[CHOOSE c \in CellsAt(xml, PatchPos(p)) : TRUE], "s")

ExpectedStyleIndex(p) ==
    IF IsSome(p.style_index) THEN Unwrap(p.style_index)
    ELSE IF CellsAt(xml, PatchPos(p)) = {} THEN 0
    ELSE StyleIndexOf(xml[CHOOSE c \in CellsAt(xml, PatchPos(p)) : TRUE])

\* C22: a value patch without a style index leaves its cell with the s
\* attribute of the cell it replaces, a patch with a style index leaves that
\* index in s, and a newly inserted cell without a style index has no s
\* attribute.
C22_StyleAttrKept ==
    pc = "patched" /\ Opens(xml, "sheetData") # {} =>
        \A i \in ValuePatches :
            \A d \in CellsAt(result, PatchPos(patches[i])) :
                attr_value(result[d], "s") = ExpectedStyleAttr(patches[i])

\* C22 as amended: a value patch without a style index leaves its cell with
\* the style index of the cell it replaces, a patch with a style index leaves
\* that index, and a newly inserted cell without a style index has no s
\* attribute; the index 0 is written as no s attribute.
C22_StyleIndexKept ==
    pc = "patched" /\ Opens(xml, "sheetData") # {} =>
        \A i \in ValuePatches :
            \A d \in CellsAt(result, PatchPos(patches[i])) :
                /\ StyleIndexOf(result[d]) = ExpectedStyleIndex(patches[i])
                /\ ExpectedStyleIndex(patches[i]) = 0 => attr_value(result[d], "s") = None

\* a value patch without a style index replaced a cell with s="0", and the
\* cell it left has no s attribute
C22_Witness ==
    /\ pc = "patched"
    /\ \E i \in ValuePatches :
          /\ patches[i].style_index = None
          /\ \E c \in CellsAt(xml, PatchPos(patches[i])) : attr_value(xml[c], "s") = Some(<<"0">>)
          /\ \E d \in CellsAt(result, PatchPos(patches[i])) : attr_value(result[d], "s") = None

----------------------------------------------------------------------------
(* Formula payloads *)

\* the last call was a queue_value of a formula that returned Ok
FormulaQueued ==
    /\ pc = "queue"
    /\ last.op = "queue_value"
    /\ last.ok
    /\ "type" \in DOMAIN last.arg
    /\ last.arg.type = PyTypeName("formula")

\* the text stored for the cell of the last call
StoredText == Unwrap(Unwrap(get(patcher.value_patches, <<last.sheet, last.cell>>)).value).str

\* C23: the expression text stored in the queue for an accepted formula
\* payload does not begin with '='.
C23_NoLeadingEquals ==
    FormulaQueued => (StoredText = <<>> \/ Head(StoredText) # "=")

----------------------------------------------------------------------------
(* Cell references accepted by queue_value *)

\* the number of a column written in letters: A is 1, Z is 26, AA is 27
RECURSIVE ColumnNumber(_)
ColumnNumber(letters) ==
    IF letters = <<>> THEN 0
    ELSE ColumnNumber(SubSeq(letters, 1, Len(letters) - 1)) * 26 + LetterVal(letters[Len(letters)])

\* s is k column letters followed by digits of a row >= 1
SplitsAt(s, k) ==
    /\ \A i \in 1..k : is_ascii_alphabetic(s[i])
    /\ \A i \in (k + 1)..Len(s) : is_ascii_digit(s[i])
    /\ DigitsValue(SubSeq(s, k + 1, Len(s))) >= 1

WellFormedRef(s) == \E k \in 1..(Len(s) - 1) : SplitsAt(s, k)

\* the zero-based (row, column) a well-formed reference names
NamedRowCol(s) ==
    LET k == CHOOSE j \in 1..(Len(s) - 1) : SplitsAt(s, j)
    IN <<DigitsValue(SubSeq(s, k + 1, Len(s))) - 1, ColumnNumber(SubSeq(s, 1, k)) - 1>>

\* C24: a1_to_row_col, and through it queue_value, accepts a cell reference
\* only if it is one or more column letters followed by one or more digits of
\* a row >= 1, and then returns the zero-based (row, column) of that cell;
\* every other string is rejected.
C24_LettersThenDigits ==
    pc = "queue" /\ last.op = "queue_value" /\ payload_value(last.arg) # None =>
        /\ last.ok <=> WellFormedRef(last.cell)
        /\ IsSome(a1_to_row_col(last.cell)) <=> WellFormedRef(last.cell)
        /\ WellFormedRef(last.cell) => a1_to_row_col(last.cell) = Some(NamedRowCol(last.cell))

----------------------------------------------------------------------------
(* The text of a String value *)

StringPatches == {i \in ValuePatches : Unwrap(patches[i].value).kind = "String"}

\* position i of the text starts a reference to one of the predefined entities
StartsEntity(text, i) ==
    \E name \in {<<"a", "m", "p">>, <<"l", "t">>, <<"g", "t">>, <<"a", "p", "o", "s">>,
                  <<"q", "u", "o", "t">>} :
        /\ i + Len(name) + 1 <= Len(text)
        /\ SubSeq(text, i + 1, i + Len(name)) = name
        /\ text[i + Len(name) + 1] = ";"

\* the text is character data: no '<', no '>', and '&' only in entity references
IsCharData(text) ==
    \A i \in DOMAIN text :
        /\ text[i] \notin {"<", ">"}
        /\ text[i] = "&" => StartsEntity(text, i)

\* C25: patch_worksheet writes the text of a String value into <v>
\* literally, without entity-escaping.
C25_TextLiteral ==
    pc = "patched" /\ Opens(xml, "sheetData") # {} =>
        \A i \in StringPatches :
            \A c \in CellsAt(result, PatchPos(patches[i])) :
                Element(result, c)[3].text = Unwrap(patches[i].value).str

\* C25 as amended: patch_worksheet writes the text of a String value into
\* <v> entity-escaped: the text in the output holds no '<' or '>', holds '&'
\* only at the start of an entity reference, and resolves to the value.
C25_TextEscaped ==
    pc = "patched" /\ Opens(xml, "sheetData") # {} =>
        \A i \in StringPatches :
            \A c \in CellsAt(result, PatchPos(patches[i])) :
                /\ IsCharData(Element(result, c)[3].text)
                /\ xml_unescape(Element(result, c)[3].text) = Unwrap(patches[i].value).str

\* a String value holding '&', '<' and '>' was written
C25_Witness ==
    /\ pc = "patched"
    /\ \E i \in StringPatches :
          /\ {"&", "<", ">"} \subseteq Range(Unwrap(patches[i].value).str)
          /\ \E c \in CellsAt(result, PatchPos(patches[i])) :
                 Element(result, c)[3].text =
                     <<"a", "&", "a", "m", "p", ";", "&", "l", "t", ";", "&", "g", "t", ";">>

----------------------------------------------------------------------------
(* One cell per patched position *)

\* C26: on a worksheet whose rows ascend and whose cells have distinct
\* references, every patched (row, column) is the position of exactly one cell
\* element of the output, whether its row holds the cell, holds other cells,
\* is self-closed or absent, or sheetData itself is self-closed.
C26_OneCellPerPatch ==
    pc = "patched" =>
        \A pos \in PatchedPositions : Cardinality(CellsAt(result, pos)) = 1

\* a patched cell of a self-closed row and a patched cell of an absent row
C26_Witness ==
    /\ pc = "patched"
    /\ Len(patches) = 2
    /\ \E i \in Opens(xml, "row") : xml[i].kind = "Empty" /\ row_number(xml[i]) = patches[1].row
    /\ patches[2].row \notin Range(RowNumbers(xml))
    /\ \A pos \in PatchedPositions : Cardinality(CellsAt(result, pos)) = 1

----------------------------------------------------------------------------
(* The source file under save *)

\* C27: save(path) never modifies the source file, for every destination
\* path, the path of the source file included; a save that returned Ok left a
\* complete file at the destination.
C27_SourceUntouched ==
    Saved /\ last.op = "save" =>
        /\ disk[file_path] = last.source
        /\ last.ok /\ IsComplete(last.source) => IsComplete(disk[last.path])

----------------------------------------------------------------------------
(* Determinism of save *)

\* the files as far as the last save read them
SourceOnly ==
    [disk EXCEPT ![file_path] = last.source, ![tmp_path] = None, ![OtherPath] = None,
                 ![UnwritablePath] = None]

\* what the last save could have returned and written, over every order in
\* which the two maps can yield their keys
OutcomesOfLast ==
    {rewrite(last.prev, SourceOnly, last.path, value_order, format_order) :
        value_order \in Orders(keys(last.prev.value_patches)),
        format_order \in Orders(keys(last.prev.format_patches))}

\* the worksheet and styles content of an archive
SheetsAndStyles(file) == [i \in DOMAIN file.entries |-> Content(file.entries[i])]

\* C28: the output of save is a function of the source file and the contents
\* of the two patch maps: whatever order the maps yield their keys in, the
\* save returns the same result and writes the same worksheet and styles
\* content.
C28_OrderIndependent ==
    Saved /\ last.op = "save" /\ last.path = OtherPath /\ ~QueueIsEmpty /\ IsComplete(last.source) =>
        \A o \in OutcomesOfLast :
            /\ o.ok = last.ok
            /\ last.ok => SheetsAndStyles(Unwrap(o.files[OtherPath]))
                             = SheetsAndStyles(Unwrap(disk[OtherPath]))

----------------------------------------------------------------------------
(* Patches for sheets that are not in the index *)

\* the patcher without the entries of a map whose sheet is not in the index
Indexed(self, map) == {e \in map : contains_key(self.sheet_paths, e[1][1])}

WithoutUnindexed(self) ==
    [self EXCEPT !.value_patches = Indexed(self, @), !.format_patches = Indexed(self, @)]

HasUnindexed(self) == WithoutUnindexed(self) # self

\* what the last call could have returned and written had the patches for
\* sheets outside the index never been queued
OutcomesWithoutUnindexed ==
    IF last.op = "save" THEN save(WithoutUnindexed(last.prev), SourceOnly, last.path)
    ELSE {[ok |-> o.ok, files |-> o.files] : o \in save_in_place(WithoutUnindexed(last.prev), SourceOnly)}

\* the worksheet parts of an archive
SheetParts(file) ==
    {<<file.entries[i].name, file.entries[i].sheet>> : i \in DOMAIN file.entries}

\* the calls of the model on a sheet outside the index
UnindexedCalls ==
    {c \in QueueCalls : ~contains_key(patcher.sheet_paths, c.sheet)}

\* C29: a value or format patch queued for a sheet name that is not in the
\* package index is accepted at queue time, never makes save or save_in_place
\* fail, and never changes the content of any worksheet part in the output.
C29_UnindexedIgnored ==
    Saved /\ IsComplete(last.source) /\ HasUnindexed(last.prev) =>
        /\ \A c \in UnindexedCalls : Apply(patcher, c).ok
        /\ ~last.ok => \E o \in OutcomesWithoutUnindexed : ~o.ok
        /\ last.ok => \E o \in OutcomesWithoutUnindexed :
                          /\ o.ok
                          /\ SheetParts(Unwrap(o.files[last.path])) = SheetParts(Unwrap(disk[last.path]))

----------------------------------------------------------------------------
(* Cell references written and read back *)

\* C30: for every column >= 1 and row >= 1, parse_cell_ref of
\* col_row_to_a1(col, row) is (row, col), and on every reference that
\* a1_to_row_col accepts parse_cell_ref gives the result of a1_to_row_col plus
\* one in each coordinate.
C30_RefRoundTrip ==
    pc = "refs" /\ refs.op = "parse_cell_ref" =>
        /\ refs.from = "col_row_to_a1" => refs.parsed = <<refs.row, refs.col>>
        /\ refs.from = "a1_to_row_col" /\ IsSome(refs.accepted) =>
               refs.parsed = <<Unwrap(refs.accepted)[1] + 1, Unwrap(refs.accepted)[2] + 1>>

\* column 27 and row 10 were written as "AA10" and read back
C30_Witness ==
    /\ pc = "refs"
    /\ refs.op = "parse_cell_ref"
    /\ refs.from = "col_row_to_a1"
    /\ refs.col = 27
    /\ refs.row = 10
    /\ refs.text = <<"A", "A", "1", "0">>
    /\ refs.parsed = <<10, 27>>

====
